------------------------ MODULE UpdateInstallProofs ------------------------
(***************************************************************************)
(* Proofs about UpdateInstall: the safety properties of its run, for every *)
(* bundle of entries, every set of versions and packages the site may      *)
(* offer, and any number of downloads, releases and replacements.          *)
(*                                                                         *)
(* The argument.  While the app runs nothing of the installation has been  *)
(* touched, and the helper is there only for a download that was accepted  *)
(* and not cancelled (Exclusion, Offer).  From then on the app is gone and *)
(* only the helper changes files; where it is tells in which of four       *)
(* states each entry is (Place), so that an entry that is not installed is *)
(* in the backup, and what finishes is all new or all old.  Of the started *)
(* app the helper believes an acknowledgement only while it waits for it   *)
(* (Started).                                                              *)
(***************************************************************************)
EXTENDS UpdateInstall, SequenceTheorems, TLAPS

Waiting == helper \in {"starting", "waiting"}
Working == helper \in {"opening", "backup", "replace", "replaced", "rollback", "restored",
                       "unopened", "restart", "await", "giveup", "finishing"}

\* Who may be where: the helper works only for a handover that was not
\* cancelled, and only once the app is gone.
Exclusion ==
  /\ worker # "none" => app = "running"
  /\ worker \in {"begin", "sums", "archive", "chunks", "extract", "handoff"} => upd = "downloading"
  /\ worker \in {"launching", "polling", "done"} => upd = "restarting" /\ ~cancelled
  /\ app = "running" /\ worker \notin {"polling", "done"} => helper \in {"none", "gone"}
  /\ exit => upd = "restarting" /\ ~cancelled /\ (worker = "done" \/ app = "gone")
  /\ Waiting \/ Working => upd = "restarting" /\ ~cancelled /\ stage
  /\ Working => app = "gone"
  /\ worker \notin {"none", "begin"} => stage

\* While the app runs, nothing of the installation has been touched.
Intact ==
  app = "running" =>
    /\ inst = Original /\ bak = None /\ child = NoChild
    /\ ~restarted /\ ~finished /\ outcome = "none"

\* What was accepted, and what was therefore installed.
Accepted ==
  body = expected /\ body.sound /\ body.version = release.version /\ release.version > Current
Offer ==
  /\ upd \in {"available", "downloading", "restarting"} =>
       release.version \in Tags /\ release.version > Current
  /\ worker = "extract" => body = expected
  /\ worker \in {"handoff", "launching", "polling", "done"} => Accepted
  /\ Waiting \/ Working => Accepted
  /\ (\E e \in Entries : inst[e] \notin {"old", "none"}) => Accepted
  /\ \A e \in Entries : inst[e] # "bad"

\* The states of an entry: as it was, moved to the backup, replaced, put back.
Untouched(e) == inst[e] = Original[e] /\ bak[e] = "none" /\ pkg[e] = "new"
Moved(e)     == inst[e] = "none" /\ bak[e] = Original[e] /\ pkg[e] = "new"
Swapped(e)   == inst[e] = "new" /\ bak[e] = Original[e] /\ pkg[e] = "none"
Back(e)      == inst[e] = Original[e] /\ bak[e] = "none"
Saved(e)     == e \in Installed => inst[e] = "old" \/ bak[e] = "old"

\* How far the helper has come tells in which state each entry is.
Place ==
  /\ helper \in {"starting", "waiting", "opening"} => inst = Original /\ bak = None
  /\ helper = "backup" =>
       /\ at \in 1..Len(Order)
       /\ \A j \in 1..Len(Order) : IF j < at THEN Swapped(Order[j]) ELSE Untouched(Order[j])
  /\ helper = "replace" =>
       /\ at \in 1..Len(Order)
       /\ Moved(Order[at])
       /\ \A j \in 1..Len(Order) \ {at} : IF j < at THEN Swapped(Order[j]) ELSE Untouched(Order[j])
  /\ helper = "replaced" => \A e \in Entries : Swapped(e)
  /\ helper = "rollback" =>
       /\ at \in 0..Len(Order)
       /\ \A j \in 1..Len(Order) :
            IF j <= at THEN Untouched(Order[j]) \/ Moved(Order[j]) \/ Swapped(Order[j])
            ELSE Saved(Order[j]) /\ (clean => Back(Order[j]))
  /\ helper \in {"restored", "unopened"} => \A e \in Entries : Back(e)
  /\ helper \in {"restart", "await", "giveup", "finishing"} =>
       \/ mode = "updated" /\ outcome = "updated" /\ \A e \in Entries : Swapped(e)
       \/ mode \in {"restored", "unopened"} /\ outcome = "kept" /\ \A e \in Entries : Back(e)

\* The app that was started last, and the marks it and the helper leave.
Started ==
  /\ child.st \in {"starting", "acked", "unconfirmed"} =>
       /\ helper \in {"await", "giveup", "finishing", "gone"}
       /\ stage => outcome # "none" /\ ((outcome = "updated") = (child.ver = "new"))
  /\ helper \in {"starting", "waiting", "opening", "backup", "replace", "replaced", "unopened",
                 "restart"} => ~restarted
  /\ helper \in {"await", "giveup", "finishing"} /\ restarted => child.acked
  /\ helper = "finishing" => restarted
  /\ Waiting \/ Working => ~finished

IInv == TypeOK /\ Exclusion /\ Intact /\ Offer /\ Place /\ Started /\ NothingLost /\ AllOrNothing

USE DEF appVars, fetch, others, helperVars, tree, marks

-----------------------------------------------------------------------------
(* Constants *)

\* Every entry has its place in the order, and no other entry has it.
LEMMA OrderFacts ==
  /\ Len(Order) \in Nat \ {0} /\ DOMAIN Order = 1..Len(Order)
  /\ \A i \in 1..Len(Order) : Order[i] \in Entries
  /\ \A e \in Entries : \E i \in 1..Len(Order) : e = Order[i]
  /\ \A i, j \in 1..Len(Order) : Order[i] = Order[j] => i = j
  /\ Exe \in Entries /\ Exe \in Installed
  <1>1. Order \in Seq(Entries) /\ Order # <<>> /\ Exe \in Installed
    BY InstallAssumption
  <1>2. Len(Order) \in Nat \ {0} /\ DOMAIN Order = 1..Len(Order)
    BY <1>1
  <1> QED BY <1>1, <1>2, InstallAssumption DEF Entries, Exe

\* The sizes and versions are numbers, and the installed version is one.
LEMMA ConstantsTyped ==
  /\ Original \in [Entries -> {"old", "new", "bad", "none"}]
  /\ \A e \in Entries : Original[e] = IF e \in Installed THEN "old" ELSE "none"
  /\ None \in [Entries -> {"old", "none"}] /\ None \in [Entries -> {"new", "bad", "none"}]
  /\ \A e \in Entries : None[e] = "none"
  /\ NoArchive \in [version : Nat, size : Nat, sound : BOOLEAN] /\ NoArchive.size = 0
  /\ NoRelease \in [version : Nat, size : Nat]
  /\ Archives \subseteq [version : Nat, size : Nat, sound : BOOLEAN]
  /\ Tags \subseteq Nat /\ Current \in Nat
  BY InstallAssumption DEF Original, None, NoArchive, NoRelease

-----------------------------------------------------------------------------
(* The initial states *)

\* Nothing is asked for yet, and the installed app is whole.
LEMMA Initially == Init => IInv
  <1> SUFFICES ASSUME Init PROVE IInv
    OBVIOUS
  <1>1. assets \in [Tags -> Assets]
    <2>1. PICK a \in Archives : assets = [t \in Tags |-> [archive |-> a, sums |-> a, listed |-> TRUE]]
      BY DEF Init
    <2>2. [archive |-> a, sums |-> a, listed |-> TRUE] \in Assets
      BY DEF Assets
    <2> QED BY <2>1, <2>2
  <1>2. TypeOK
    <2>1. child \in [st : {"none", "starting", "acked", "unconfirmed", "gone"},
                     ver : {"none", "old", "new"}, acked : BOOLEAN]
      BY DEF Init, NoChild
    <2>2. at \in 0..Len(Order) /\ attempts \in 0..MaxAttempts /\ published \in 0..MaxPublished
      BY OrderFacts, InstallAssumption DEF Init
    <2>3. bytes \in Nat /\ bytes <= body.size
      BY ConstantsTyped DEF Init
    <2>4. /\ inst \in [Entries -> {"old", "new", "bad", "none"}]
          /\ bak \in [Entries -> {"old", "none"}] /\ pkg \in [Entries -> {"new", "bad", "none"}]
          /\ release \in [version : Nat, size : Nat]
      BY ConstantsTyped DEF Init
    <2> QED BY <1>1, <2>1, <2>2, <2>3, <2>4 DEF Init, TypeOK
  <1>3. Exclusion
    BY DEF Init, Exclusion, Waiting, Working
  <1>4. Intact /\ Place /\ Started /\ AllOrNothing
    BY DEF Init, Intact, Place, Started, AllOrNothing, Waiting, Working, NoChild
  <1>5. Offer
    BY ConstantsTyped DEF Init, Offer, Waiting, Working
  <1>6. NothingLost
    BY ConstantsTyped, InstallAssumption DEF Init, NothingLost, Unharmed
  <1> QED BY <1>2, <1>3, <1>4, <1>5, <1>6 DEF IInv

-----------------------------------------------------------------------------
(* Steps while the app runs: the installation stays as it is *)

\* While no helper has touched a file, the files are as installed.
LEMMA RunningKeeps ==
  ASSUME IInv, app = "running", inst' = inst, child' = child, bak' \in {bak, None},
         restarted' \in {restarted, FALSE}, finished' \in {finished, FALSE},
         outcome' \in {outcome, "none"}, ~Working'
  PROVE  Intact' /\ Place' /\ Started' /\ NothingLost' /\ AllOrNothing'
  <1>1. /\ inst = Original /\ bak = None /\ child = NoChild
        /\ ~restarted /\ ~finished /\ outcome = "none"
    BY DEF IInv, Intact
  <1>2. /\ inst' = Original /\ bak' = None /\ child' = NoChild
        /\ ~restarted' /\ ~finished' /\ outcome' = "none"
    <2>1. inst' = Original /\ bak' = None /\ child' = NoChild /\ outcome' = "none"
      BY <1>1
    <2>2. CASE restarted' = restarted /\ finished' = finished
      BY <1>1, <2>1, <2>2
    <2>3. CASE restarted' = FALSE /\ finished' = finished
      BY <1>1, <2>1, <2>3
    <2>4. CASE restarted' = restarted /\ finished' = FALSE
      BY <1>1, <2>1, <2>4
    <2>5. CASE restarted' = FALSE /\ finished' = FALSE
      BY <2>1, <2>5
    <2> QED BY <2>2, <2>3, <2>4, <2>5
  <1>3. Intact' /\ Place' /\ Started' /\ AllOrNothing'
    BY <1>2 DEF Intact, Place, Started, AllOrNothing, Working, NoChild
  <1>4. NothingLost'
    BY <1>2, ConstantsTyped, InstallAssumption DEF NothingLost, Unharmed
  <1> QED BY <1>3, <1>4

\* Before the helper works, every entry is the old one and has no backup.
LEMMA RunningPristine ==
  ASSUME IInv, app = "running"
  PROVE  /\ \A e \in Entries : inst[e] \in {"old", "none"}
         /\ helper \notin {"opening", "backup", "replace"} /\ ~Working
  BY ConstantsTyped DEF IInv, Intact, Exclusion, Working

\* What the site offers, and what was asked for, is typed.
LEMMA SiteTyped ==
  ASSUME IInv
  PROVE  /\ \A t \in Tags : /\ assets[t].archive \in Archives
                            /\ assets[t].sums \in Archives \cup {NoArchive}
                            /\ assets[t].archive.size \in Nat
         /\ latest \in Nat /\ body.size \in Nat /\ bytes \in Nat
  <1>1. assets \in [Tags -> Assets] /\ latest \in Tags /\ body \in Archives \cup {NoArchive} /\ bytes \in Nat
    BY DEF IInv, TypeOK
  <1>2. ASSUME NEW t \in Tags
        PROVE  /\ assets[t].archive \in Archives /\ assets[t].sums \in Archives \cup {NoArchive}
               /\ assets[t].archive.size \in Nat
    BY <1>1, ConstantsTyped DEF Assets, Garbled
  <1>3. latest \in Nat /\ body.size \in Nat
    BY <1>1, ConstantsTyped
  <1> QED BY <1>1, <1>2, <1>3

\* Steps after which helper, files and marks are as before.
LEMMA FilesStill ==
  ASSUME IInv, UNCHANGED <<helperVars, child, inst, bak, stage, marks>>, app' = app,
         pkg' = pkg \/ helper \in {"none", "starting", "waiting", "opening"}
  PROVE  Intact' /\ Place' /\ Started' /\ NothingLost' /\ AllOrNothing'
  <1>1. Intact' /\ Started'
    BY DEF IInv, Intact, Started, Waiting, Working
  <1>2. Place'
    BY DEF IInv, Place, Untouched, Moved, Swapped, Back, Saved
  <1>3. NothingLost' /\ AllOrNothing'
    BY DEF IInv, NothingLost, AllOrNothing, Updated, Unharmed
  <1> QED BY <1>1, <1>2, <1>3

\* An error of the worker, from any of its steps.
LEMMA WorkerFailsKeeps ==
  ASSUME IInv, WorkerFails, worker \notin {"none", "done"}, helper' \in {"none", "gone"}
  PROVE  IInv'
  <1>1. app = "running"
    BY DEF IInv, Exclusion
  <1>2. TypeOK'
    <2>1. {cancelled', exit', clean', tampered', stage', ready', restarted', finished'} \subseteq BOOLEAN
      BY DEF WorkerFails, RemoveStage, IInv, TypeOK
    <2>2. inst' = inst /\ bak' = None /\ pkg' = None /\ outcome' = "none" /\ upd' = "failed" /\ worker' = "none"
      BY DEF WorkerFails, RemoveStage
    <2>3. UNCHANGED <<app, release, attempts, fetch, others, at, mode, child>>
      BY DEF WorkerFails
    <2> QED BY <2>1, <2>2, <2>3, ConstantsTyped, SMTT(30) DEF IInv, TypeOK
  <1>3. Exclusion'
    BY <1>1 DEF WorkerFails, RemoveStage, IInv, Exclusion, Waiting, Working
  <1>4. Offer'
    BY DEF WorkerFails, RemoveStage, IInv, Offer, Waiting, Working, Accepted
  <1>5. Intact' /\ Place' /\ Started' /\ NothingLost' /\ AllOrNothing'
    BY <1>1, RunningKeeps DEF WorkerFails, RemoveStage, Working
  <1> QED BY <1>2, <1>3, <1>4, <1>5 DEF IInv

-----------------------------------------------------------------------------
(* The site, the app and its two threads *)

\* A check is asked for.
LEMMA CheckKeeps == IInv /\ Check => IInv'
  <1> SUFFICES ASSUME IInv, Check PROVE IInv'
    OBVIOUS
  <1>1. app = "running" /\ ~Working
    BY DEF Check, IInv, Exclusion, Working
  <1>2. TypeOK'
    BY DEF Check, IInv, TypeOK
  <1>3. Exclusion'
    BY DEF Check, Busy, IInv, Exclusion, Waiting, Working
  <1>4. Offer'
    BY DEF Check, IInv, Offer, Waiting, Working, Accepted
  <1>5. Intact' /\ Place' /\ Started' /\ NothingLost' /\ AllOrNothing'
    BY <1>1, RunningKeeps DEF Check, Working
  <1> QED BY <1>2, <1>3, <1>4, <1>5 DEF IInv

\* The site is asked, and the newest release offered or refused.
LEMMA FoundKeeps == IInv /\ Found => IInv'
  <1> SUFFICES ASSUME IInv, Found PROVE IInv'
    OBVIOUS
  <1>1. app = "running" /\ ~Working
    BY DEF Found, IInv, Exclusion, Working
  <1>2. TypeOK'
    <2>1. release' \in [version : Nat, size : Nat]
      BY SiteTyped DEF Found, Offered, IInv, TypeOK
    <2>2. upd' \in {"failed", "current", "available"}
      BY DEF Found
    <2>3. UNCHANGED <<app, cancelled, exit, worker, attempts, fetch, others, helperVars, child,
                      tree, stage, marks>>
      BY DEF Found
    <2> QED BY <2>1, <2>2, <2>3 DEF IInv, TypeOK
  <1>3. Exclusion'
    BY DEF Found, IInv, Exclusion, Waiting, Working
  <1>4. Offer'
    <2>1. /\ worker \notin {"extract", "handoff", "launching", "polling", "done"}
          /\ ~Waiting /\ ~Working /\ inst' = inst
      BY DEF Found, IInv, Exclusion
    <2>2. \A e \in Entries : inst[e] \in {"old", "none"}
      BY <1>1, RunningPristine
    <2>3. upd' \in {"available", "downloading", "restarting"} =>
            release'.version \in Tags /\ release'.version > Current
      BY DEF Found, Newer, Offered, IInv, TypeOK
    <2>4. ~Waiting' /\ ~Working' /\ worker' = worker
      BY <2>1 DEF Found, Waiting, Working
    <2> QED BY <2>1, <2>2, <2>3, <2>4 DEF Offer
  <1>5. Intact' /\ Place' /\ Started' /\ NothingLost' /\ AllOrNothing'
    BY <1>1, RunningKeeps DEF Found, Working
  <1> QED BY <1>2, <1>3, <1>4, <1>5 DEF IInv

\* The download is asked for.
LEMMA DownloadKeeps == IInv /\ Download => IInv'
  <1> SUFFICES ASSUME IInv, Download PROVE IInv'
    OBVIOUS
  <1>1. app = "running" /\ ~Working
    BY DEF Download, IInv, Exclusion, Working
  <1>2. TypeOK'
    <2>1. attempts' \in 0..MaxAttempts
      BY InstallAssumption DEF Download, IInv, TypeOK
    <2>2. /\ cancelled' = FALSE /\ upd' = "downloading" /\ worker' = "begin" /\ helper' = "none"
          /\ expected' = NoArchive /\ body' = NoArchive /\ bytes' = 0
          /\ UNCHANGED <<app, exit, release, others, at, mode, clean, child, tree, stage, marks>>
      BY DEF Download
    <2>3. bytes' \in Nat /\ bytes' <= body'.size
      BY <2>2, ConstantsTyped
    <2> QED BY <2>1, <2>2, <2>3, ZenonT(40) DEF IInv, TypeOK
  <1>3. Exclusion'
    BY DEF Download, IInv, Exclusion, Waiting, Working
  <1>4. Offer'
    <2>1. \A e \in Entries : inst[e] \in {"old", "none"}
      BY <1>1, RunningPristine
    <2> QED BY <2>1 DEF Download, IInv, Offer, Waiting, Working
  <1>5. Intact' /\ Place' /\ Started' /\ NothingLost' /\ AllOrNothing'
    BY <1>1, RunningKeeps DEF Download, Working
  <1> QED BY <1>2, <1>3, <1>4, <1>5 DEF IInv

\* The user cancels.
LEMMA CancelKeeps == IInv /\ Cancel => IInv'
  <1> SUFFICES ASSUME IInv, Cancel PROVE IInv'
    OBVIOUS
  <1>1. app = "running" /\ ~Working
    BY DEF Cancel, IInv, Exclusion, Working
  <1>2. TypeOK'
    BY DEF Cancel, IInv, TypeOK
  <1>3. Exclusion'
    BY DEF Cancel, IInv, Exclusion, Waiting, Working
  <1>4. Offer'
    BY DEF Cancel, IInv, Offer, Waiting, Working, Accepted
  <1>5. Intact' /\ Place' /\ Started' /\ NothingLost' /\ AllOrNothing'
    BY <1>1, RunningKeeps DEF Cancel, Working
  <1> QED BY <1>2, <1>3, <1>4, <1>5 DEF IInv

\* The app exits.
LEMMA QuitKeeps == IInv /\ Quit => IInv'
  <1> SUFFICES ASSUME IInv, Quit PROVE IInv'
    OBVIOUS
  <1>1. app = "running" /\ ~Working
    BY DEF Quit, IInv, Exclusion, Working
  <1>2. TypeOK'
    BY DEF Quit, IInv, TypeOK
  <1>3. Exclusion'
    BY DEF Quit, IInv, Exclusion, Waiting, Working
  <1>4. Offer'
    BY DEF Quit, IInv, Offer, Waiting, Working, Accepted
  <1>5. Intact' /\ Place' /\ Started' /\ NothingLost' /\ AllOrNothing'
    BY <1>1, RunningKeeps DEF Quit, Working
  <1> QED BY <1>2, <1>3, <1>4, <1>5 DEF IInv

\* The worker takes the job up and makes its staging.
LEMMA BeginKeeps == IInv /\ Begin => IInv'
  <1> SUFFICES ASSUME IInv, Begin PROVE IInv'
    OBVIOUS
  <1>1. app = "running" /\ ~Working
    BY DEF Begin, Step, IInv, Exclusion, Working
  <1>2. TypeOK'
    BY DEF Begin, Step, IInv, TypeOK
  <1>3. Exclusion'
    BY DEF Begin, Step, IInv, Exclusion, Waiting, Working
  <1>4. Offer'
    BY DEF Begin, Step, IInv, Offer, Waiting, Working, Accepted
  <1>5. Intact' /\ Place' /\ Started' /\ NothingLost' /\ AllOrNothing'
    BY <1>1, RunningKeeps DEF Begin, Step, Working
  <1> QED BY <1>2, <1>3, <1>4, <1>5 DEF IInv

\* The checksums are fetched.
LEMMA FetchSumsKeeps == IInv /\ FetchSums => IInv'
  <1> SUFFICES ASSUME IInv, FetchSums PROVE IInv'
    OBVIOUS
  <1>1. app = "running" /\ ~Working
    BY DEF FetchSums, Step, IInv, Exclusion, Working
  <1>2. TypeOK'
    <2>1. expected' \in Archives \cup {NoArchive}
      BY SiteTyped DEF FetchSums, Step, IInv, Exclusion, Offer
    <2> QED BY <2>1 DEF FetchSums, Step, IInv, TypeOK
  <1>3. Exclusion'
    BY DEF FetchSums, Step, IInv, Exclusion, Waiting, Working
  <1>4. Offer'
    <2>1. \A e \in Entries : inst[e] \in {"old", "none"}
      BY <1>1, RunningPristine
    <2>2. ~Waiting' /\ ~Working'
      BY <1>1 DEF FetchSums, Step, IInv, Exclusion, Waiting, Working
    <2> QED BY <2>1, <2>2 DEF FetchSums, Step, IInv, Offer
  <1>5. Intact' /\ Place' /\ Started' /\ NothingLost' /\ AllOrNothing'
    BY <1>1, RunningKeeps DEF FetchSums, Step, Working
  <1> QED BY <1>2, <1>3, <1>4, <1>5 DEF IInv

\* The archive answers.
LEMMA OpenArchiveKeeps == IInv /\ OpenArchive => IInv'
  <1> SUFFICES ASSUME IInv, OpenArchive PROVE IInv'
    OBVIOUS
  <1>1. app = "running" /\ ~Working
    BY DEF OpenArchive, Step, IInv, Exclusion, Working
  <1>2. TypeOK'
    <2>1. body' \in Archives /\ bytes' = 0
      BY SiteTyped DEF OpenArchive, Step, IInv, Exclusion, Offer
    <2>2. bytes' \in Nat /\ bytes' <= body'.size
      BY <2>1, ConstantsTyped
    <2> QED BY <2>1, <2>2 DEF OpenArchive, Step, IInv, TypeOK
  <1>3. Exclusion'
    BY DEF OpenArchive, Step, IInv, Exclusion, Waiting, Working
  <1>4. Offer'
    <2>1. \A e \in Entries : inst[e] \in {"old", "none"}
      BY <1>1, RunningPristine
    <2>2. ~Waiting' /\ ~Working'
      BY <1>1 DEF OpenArchive, Step, IInv, Exclusion, Waiting, Working
    <2> QED BY <2>1, <2>2 DEF OpenArchive, Step, IInv, Offer
  <1>5. Intact' /\ Place' /\ Started' /\ NothingLost' /\ AllOrNothing'
    BY <1>1, RunningKeeps DEF OpenArchive, Step, Working
  <1> QED BY <1>2, <1>3, <1>4, <1>5 DEF IInv

\* A chunk of the archive arrives.
LEMMA ChunkKeeps == IInv /\ Chunk => IInv'
  <1> SUFFICES ASSUME IInv, Chunk PROVE IInv'
    OBVIOUS
  <1>1. app = "running" /\ ~Working
    BY DEF Chunk, Step, IInv, Exclusion, Working
  <1>2. TypeOK'
    <2>1. bytes' \in Nat /\ bytes' <= body'.size
      BY SiteTyped DEF Chunk
    <2> QED BY <2>1 DEF Chunk, Step, IInv, TypeOK
  <1>3. Exclusion'
    BY DEF Chunk, Step, IInv, Exclusion, Waiting, Working
  <1>4. Offer'
    BY DEF Chunk, Step, IInv, Offer, Waiting, Working, Accepted
  <1>5. Intact' /\ Place' /\ Started' /\ NothingLost' /\ AllOrNothing'
    BY <1>1, RunningKeeps DEF Chunk, Step, Working
  <1> QED BY <1>2, <1>3, <1>4, <1>5 DEF IInv

\* The archive ends, and its digest is compared.
LEMMA EndOfArchiveKeeps == IInv /\ EndOfArchive => IInv'
  <1> SUFFICES ASSUME IInv, EndOfArchive PROVE IInv'
    OBVIOUS
  <1>1. app = "running" /\ ~Working
    BY DEF EndOfArchive, Step, IInv, Exclusion, Working
  <1>2. TypeOK'
    BY DEF EndOfArchive, Step, IInv, TypeOK
  <1>3. Exclusion'
    BY DEF EndOfArchive, Step, IInv, Exclusion, Waiting, Working
  <1>4. Offer'
    BY DEF EndOfArchive, Step, IInv, Offer, Waiting, Working, Accepted
  <1>5. Intact' /\ Place' /\ Started' /\ NothingLost' /\ AllOrNothing'
    BY <1>1, RunningKeeps DEF EndOfArchive, Step, Working
  <1> QED BY <1>2, <1>3, <1>4, <1>5 DEF IInv

\* The entries are extracted.
LEMMA ExtractKeeps == IInv /\ Extract => IInv'
  <1> SUFFICES ASSUME IInv, Extract PROVE IInv'
    OBVIOUS
  <1>1. app = "running" /\ ~Working
    BY DEF Extract, Step, IInv, Exclusion, Working
  <1>2. TypeOK'
    <2>1. pkg' \in [Entries -> {"new", "bad", "none"}]
      BY DEF Extract, IInv, TypeOK
    <2> QED BY <2>1 DEF Extract, Step, IInv, TypeOK
  <1>3. Exclusion'
    BY DEF Extract, Step, IInv, Exclusion, Waiting, Working
  <1>4. Offer'
    BY DEF Extract, Step, IInv, Offer, Waiting, Working, Accepted
  <1>5. Intact' /\ Place' /\ Started' /\ NothingLost' /\ AllOrNothing'
    BY <1>1, RunningKeeps DEF Extract, Step, Working
  <1> QED BY <1>2, <1>3, <1>4, <1>5 DEF IInv

\* The extracted package is accepted.
LEMMA AcceptPackageKeeps == IInv /\ AcceptPackage => IInv'
  <1> SUFFICES ASSUME IInv, AcceptPackage PROVE IInv'
    OBVIOUS
  <1>1. app = "running" /\ ~Working
    BY DEF AcceptPackage, Step, IInv, Exclusion, Working
  <1>2. TypeOK'
    BY DEF AcceptPackage, Step, IInv, TypeOK
  <1>3. Exclusion'
    BY DEF AcceptPackage, Step, IInv, Exclusion, Waiting, Working
  <1>4. Offer'
    BY DEF AcceptPackage, Step, IInv, TypeOK, Exclusion, Offer, Waiting, Working, Accepted
  <1>5. Intact' /\ Place' /\ Started' /\ NothingLost' /\ AllOrNothing'
    BY <1>1, RunningKeeps DEF AcceptPackage, Step, Working
  <1> QED BY <1>2, <1>3, <1>4, <1>5 DEF IInv

\* The worker sees the marker ready.
LEMMA HelperIsReadyKeeps == IInv /\ HelperIsReady => IInv'
  <1> SUFFICES ASSUME IInv, HelperIsReady PROVE IInv'
    OBVIOUS
  <1>1. app = "running" /\ ~Working
    BY DEF HelperIsReady, IInv, Exclusion, Working
  <1>2. TypeOK'
    BY DEF HelperIsReady, IInv, TypeOK
  <1>3. Exclusion'
    BY DEF HelperIsReady, IInv, Exclusion, Waiting, Working
  <1>4. Offer'
    BY DEF HelperIsReady, IInv, Offer, Waiting, Working, Accepted
  <1>5. Intact' /\ Place' /\ Started' /\ NothingLost' /\ AllOrNothing'
    BY <1>1, RunningKeeps DEF HelperIsReady, Working
  <1> QED BY <1>2, <1>3, <1>4, <1>5 DEF IInv

\* A release appears on the site.
LEMMA PublishKeeps == IInv /\ Publish => IInv'
  <1> SUFFICES ASSUME IInv, Publish PROVE IInv'
    OBVIOUS
  <1>2. TypeOK'
    <2>1. published' \in 0..MaxPublished
      BY InstallAssumption, SMTT(30) DEF Publish, IInv, TypeOK
    <2>2. latest' \in Tags /\ assets' \in [Tags -> Assets]
      BY ZenonT(40) DEF Publish, IInv, TypeOK
    <2>3. UNCHANGED <<app, upd, cancelled, exit, release, worker, attempts, fetch, tampered,
                      helperVars, child, tree, stage, marks>>
      BY DEF Publish
    <2> QED BY <2>1, <2>2, <2>3 DEF IInv, TypeOK
  <1>3. Exclusion'
    BY DEF Publish, IInv, Exclusion, Waiting, Working
  <1>4. Offer'
    BY DEF Publish, IInv, Offer, Waiting, Working, Accepted
  <1>5. Intact' /\ Place' /\ Started' /\ NothingLost' /\ AllOrNothing'
    BY FilesStill DEF Publish, Working
  <1> QED BY <1>2, <1>3, <1>4, <1>5 DEF IInv

\* The staged package is changed before the helper verifies it.
LEMMA TamperKeeps == IInv /\ Tamper => IInv'
  <1> SUFFICES ASSUME IInv, Tamper PROVE IInv'
    OBVIOUS
  <1>2. TypeOK'
    BY DEF Tamper, IInv, TypeOK
  <1>3. Exclusion'
    BY DEF Tamper, IInv, Exclusion, Waiting, Working
  <1>4. Offer'
    BY DEF Tamper, IInv, Offer, Waiting, Working, Accepted
  <1>5. Intact' /\ Place' /\ Started' /\ NothingLost' /\ AllOrNothing'
    BY FilesStill DEF Tamper, Working
  <1> QED BY <1>2, <1>3, <1>4, <1>5 DEF IInv

\* The package is prepared for the restart.
LEMMA PrepareKeeps == IInv /\ Prepare => IInv'
  <1>1. IInv /\ Preparing /\ WorkerFails /\ UNCHANGED helper => IInv'
    <2> SUFFICES ASSUME IInv, Preparing, WorkerFails, UNCHANGED helper PROVE IInv'
      OBVIOUS
    <2>1. worker \notin {"none", "done"} /\ helper' \in {"none", "gone"}
      BY DEF Preparing, IInv, Exclusion
    <2> QED BY <2>1, WorkerFailsKeeps
  <1> QED
    BY <1>1, BeginKeeps, FetchSumsKeeps, OpenArchiveKeeps, ChunkKeeps, EndOfArchiveKeeps, ExtractKeeps,
       AcceptPackageKeeps DEF Prepare

\* The last look at the cancellation before the handover.
LEMMA HandOffKeeps == IInv /\ HandOff => IInv'
  <1> SUFFICES ASSUME IInv, HandOff PROVE IInv'
    OBVIOUS
  <1>1. CASE cancelled
    <2>1. WorkerFails /\ worker \notin {"none", "done"} /\ helper' \in {"none", "gone"}
      BY <1>1 DEF HandOff, IInv, Exclusion
    <2> QED BY <2>1, WorkerFailsKeeps
  <1>2. CASE ~cancelled
    <2>1. /\ worker = "handoff" /\ upd' = "restarting" /\ worker' = "launching" /\ app = "running"
          /\ UNCHANGED <<app, cancelled, exit, release, attempts, fetch, others, helperVars, child,
                         tree, stage, marks>>
      BY <1>2 DEF HandOff, IInv, Exclusion
    <2>2. TypeOK'
      BY <2>1 DEF IInv, TypeOK
    <2>3. Exclusion'
      BY <1>2, <2>1 DEF IInv, Exclusion, Waiting, Working
    <2>4. Offer'
      BY <2>1 DEF IInv, Exclusion, Offer, Waiting, Working, Accepted
    <2>5. Intact' /\ Place' /\ Started' /\ NothingLost' /\ AllOrNothing'
      BY <2>1, FilesStill
    <2> QED BY <2>2, <2>3, <2>4, <2>5 DEF IInv
  <1> QED BY <1>1, <1>2

\* The helper is launched.
LEMMA LaunchKeeps == IInv /\ Launch => IInv'
  <1> SUFFICES ASSUME IInv, Launch PROVE IInv'
    OBVIOUS
  <1>1. CASE WorkerFails /\ UNCHANGED helper
    <2>1. worker \notin {"none", "done"} /\ helper' \in {"none", "gone"}
      BY <1>1 DEF Launch, IInv, Exclusion
    <2> QED BY <1>1, <2>1, WorkerFailsKeeps
  <1>2. CASE ~(WorkerFails /\ UNCHANGED helper)
    <2>1. /\ worker = "launching" /\ helper' = "starting" /\ worker' = "polling"
          /\ UNCHANGED <<app, upd, cancelled, exit, release, attempts, fetch, others, at,
                         mode, clean, child, tree, stage, marks>>
      BY <1>2 DEF Launch
    <2>2. app = "running" /\ ~Working'
      BY <2>1 DEF IInv, Exclusion, Working
    <2>3. TypeOK'
      BY <2>1 DEF IInv, TypeOK
    <2>4. Exclusion'
      BY <2>1, <2>2 DEF IInv, Exclusion, Waiting
    <2>5. Offer'
      BY <2>1, <2>2 DEF IInv, Offer, Waiting, Accepted
    <2>6. Intact' /\ Place' /\ Started' /\ NothingLost' /\ AllOrNothing'
      BY <2>1, <2>2, RunningKeeps
    <2> QED BY <2>3, <2>4, <2>5, <2>6 DEF IInv
  <1> QED BY <1>1, <1>2

\* The helper did not become ready.
LEMMA HelperIsNotKeeps == IInv /\ HelperIsNot => IInv'
  BY WorkerFailsKeeps DEF HelperIsNot

\* Any step of the threads of the app.
LEMMA WorkerKeeps == IInv /\ Worker => IInv'
  BY FoundKeeps, PrepareKeeps, HandOffKeeps, LaunchKeeps, HelperIsReadyKeeps, HelperIsNotKeeps DEF Worker

-----------------------------------------------------------------------------
(* The helper *)

\* What the helper's steps share: they touch nothing of the app, and install
\* nothing that was not accepted.
LEMMA HelperStep ==
  ASSUME IInv, Waiting \/ Working, UNCHANGED appVars, UNCHANGED stage,
         Working' => app = "gone",
         Working \/ inst' = inst,
         \A e \in Entries : inst'[e] # "bad",
         Waiting' \/ Working' \/ helper' = "gone"
  PROVE  Exclusion' /\ Offer'
  <1>1. Exclusion'
    BY DEF IInv, Exclusion, Waiting, Working
  <1>2. Accepted /\ Accepted'
    BY DEF IInv, Offer, Accepted
  <1>3. Offer'
    BY <1>2 DEF IInv, Offer
  <1> QED BY <1>1, <1>3

\* The helper loads the plan and announces itself, or ends.
LEMMA AnnounceKeeps == IInv /\ Announce => IInv'
  <1> SUFFICES ASSUME IInv, Announce PROVE IInv'
    OBVIOUS
  <1>1. /\ helper = "starting" /\ helper' \in {"waiting", "gone"}
        /\ UNCHANGED <<appVars, at, mode, clean, child, tree, stage, restarted, finished, outcome>>
    BY DEF Announce, Ends
  <1>2. ready' \in BOOLEAN
    BY DEF Announce, IInv, TypeOK
  <1>3. TypeOK'
    BY <1>1, <1>2 DEF IInv, TypeOK
  <1>4. Exclusion' /\ Offer'
    BY <1>1, HelperStep DEF IInv, Offer, Waiting, Working
  <1>5. Intact' /\ Place' /\ Started'
    BY <1>1 DEF IInv, Intact, Place, Started, Waiting, Working
  <1>6. NothingLost' /\ AllOrNothing'
    BY <1>1 DEF IInv, NothingLost, AllOrNothing, Updated, Unharmed
  <1> QED BY <1>3, <1>4, <1>5, <1>6 DEF IInv

\* The helper ends where it is, and leaves everything as it is.
LEMMA EndsKeeps ==
  ASSUME IInv, TypeOK', helper' = "gone", UNCHANGED <<appVars, tree, stage, finished, outcome>>,
         child' = child \/ (app = "gone" /\ ~finished /\ child'.st = "gone"),
         restarted' = restarted \/ app = "gone"
  PROVE  IInv'
  <1>1. Exclusion' /\ Started'
    BY DEF IInv, Exclusion, Started, Waiting, Working
  <1>2. Offer'
    BY DEF IInv, Offer, Waiting, Working, Accepted
  <1>3. Place'
    BY DEF Place
  <1>4. NothingLost'
    BY DEF IInv, NothingLost, Updated, Unharmed
  <1>5. AllOrNothing'
    BY DEF IInv, AllOrNothing, Updated, Unharmed
  <1>6. Intact'
    <2>1. CASE app = "gone"
      BY <2>1 DEF Intact
    <2>2. CASE app = "running"
      <3> SUFFICES /\ inst' = Original /\ bak' = None /\ child' = NoChild
                   /\ ~restarted' /\ ~finished' /\ outcome' = "none"
        BY DEF Intact
      <3> QED BY <2>2, restarted' = restarted DEF IInv, Intact
    <2> QED BY <2>1, <2>2 DEF IInv, TypeOK
  <1> QED BY <1>1, <1>2, <1>3, <1>4, <1>5, <1>6 DEF IInv

\* The helper is ended from outside.
LEMMA HelperDiesKeeps == IInv /\ HelperDies => IInv'
  <1> SUFFICES ASSUME IInv, HelperDies PROVE IInv'
    OBVIOUS
  <1>1. TypeOK'
    BY DEF HelperDies, Ends, IInv, TypeOK
  <1> QED BY <1>1, EndsKeeps DEF HelperDies, Ends

\* Where the entries are tells that nothing is lost while the helper works.
LEMMA WorkingSound ==
  ASSUME TypeOK', Exclusion', Place', Started', Working', helper' # "opening"
  PROVE  NothingLost' /\ AllOrNothing'
  <1>1. ~finished' /\ stage' /\ helper' # "gone"
    BY DEF Exclusion, Started, Working
  <1>2. AllOrNothing'
    BY <1>1 DEF AllOrNothing, Started
  <1>3. ASSUME NEW e \in Entries PROVE Saved(e)'
    <2>1. ASSUME Untouched(e)' \/ Moved(e)' \/ Swapped(e)' \/ Back(e)' \/ Saved(e)'
          PROVE  Saved(e)'
      BY <2>1, ConstantsTyped DEF Untouched, Moved, Swapped, Back, Saved
    <2>2. PICK j \in 1..Len(Order) : e = Order[j]
      BY OrderFacts
    <2>3. Untouched(e)' \/ Moved(e)' \/ Swapped(e)' \/ Back(e)' \/ Saved(e)'
      <3>1. CASE helper' = "backup"
        BY <2>2, <3>1 DEF Place
      <3>2. CASE helper' = "replace"
        BY <2>2, <3>2 DEF Place
      <3>3. CASE helper' = "rollback"
        BY <2>2, <3>3 DEF Place
      <3>4. CASE helper' \in {"replaced", "restored", "unopened", "restart", "await", "giveup", "finishing"}
        BY <3>4 DEF Place
      <3> QED BY <3>1, <3>2, <3>3, <3>4 DEF Working
    <2> QED BY <2>1, <2>3
  <1>4. NothingLost'
    BY <1>1, <1>3, InstallAssumption DEF NothingLost, Saved
  <1> QED BY <1>2, <1>4

\* A step of the working helper is as it should be when these are.
LEMMA WorkingKeeps ==
  ASSUME IInv, Working, UNCHANGED appVars, UNCHANGED stage, TypeOK', Working', helper' # "opening",
         \A e \in Entries : inst'[e] # "bad", Place', Started'
  PROVE  IInv'
  <1>1. Exclusion' /\ Offer'
    BY HelperStep DEF IInv, Exclusion
  <1>2. Intact'
    BY DEF IInv, Exclusion, Intact
  <1>3. NothingLost' /\ AllOrNothing'
    BY <1>1, WorkingSound
  <1> QED BY <1>1, <1>2, <1>3 DEF IInv

\* The helper waits for the app to exit.
LEMMA AwaitAppKeeps == IInv /\ AwaitApp => IInv'
  <1> SUFFICES ASSUME IInv, AwaitApp PROVE IInv'
    OBVIOUS
  <1>1. UNCHANGED <<appVars, at, mode, clean, child, tree, stage, marks>> /\ helper = "waiting"
    BY DEF AwaitApp
  <1>2. TypeOK'
    BY <1>1 DEF AwaitApp, Ends, IInv, TypeOK
  <1>3. CASE helper' = "gone"
    BY <1>1, <1>2, <1>3, EndsKeeps
  <1>4. CASE app = "gone" /\ helper' = "opening"
    <2>1. Exclusion' /\ Offer'
      BY <1>1, <1>4, HelperStep DEF IInv, Offer, Waiting, Working
    <2>2. Intact' /\ Started' /\ Place'
      BY <1>1, <1>4 DEF IInv, Intact, Started, Place, Waiting, Working
    <2>3. NothingLost' /\ AllOrNothing'
      BY <1>1 DEF IInv, NothingLost, AllOrNothing, Updated, Unharmed
    <2> QED BY <1>2, <2>1, <2>2, <2>3 DEF IInv
  <1> QED BY <1>3, <1>4 DEF AwaitApp, Ends

\* The package is verified again, and the transaction opened or not.
LEMMA OpenKeeps == IInv /\ Open => IInv'
  <1> SUFFICES ASSUME IInv, Open PROVE IInv'
    OBVIOUS
  <1>1. /\ UNCHANGED <<appVars, mode, clean, child, tree, stage, marks>> /\ helper = "opening" /\ Working
        /\ \/ helper' = "backup" /\ at' = 1 /\ \A e \in Entries : pkg[e] = "new"
           \/ helper' = "unopened" /\ at' = at
    BY DEF Open, Verified, Working
  <1>2. TypeOK' /\ Working'
    BY <1>1, OrderFacts DEF IInv, TypeOK, Working
  <1>3. inst = Original /\ bak = None
    BY <1>1 DEF IInv, Place
  <1>4. Place'
    BY <1>1, <1>3, OrderFacts, ConstantsTyped DEF Place, Untouched, Back
  <1>5. Started'
    BY <1>1 DEF IInv, Started, Waiting, Working
  <1> QED BY <1>1, <1>2, <1>4, <1>5, WorkingKeeps DEF IInv, Offer

\* The step to rollback, from where the entries tell the state of each.
LEMMA FailKeeps ==
  ASSUME IInv, Working, Fail, UNCHANGED <<appVars, mode, tree, stage, marks>>,
         child' = child \/ child'.st = "gone", TypeOK',
         child'.st \notin {"starting", "acked", "unconfirmed"},
         \A e \in Entries : Untouched(e) \/ Moved(e) \/ Swapped(e)
  PROVE  IInv'
  <1>1. helper' = "rollback" /\ at' = Len(Order) /\ Working'
    BY DEF Fail, Working
  <1>2. \A e \in Entries : Untouched(e)' \/ Moved(e)' \/ Swapped(e)'
    BY DEF Untouched, Moved, Swapped
  <1>3. Place'
    BY <1>1, <1>2, OrderFacts DEF Place
  <1>4. Started'
    BY <1>1 DEF IInv, Started, Waiting, Working
  <1> QED BY <1>1, <1>3, <1>4, WorkingKeeps DEF IInv, Offer

\* An installed entry moves to the backup.
LEMMA BackUpKeeps == IInv /\ BackUp => IInv'
  <1> SUFFICES ASSUME IInv, BackUp PROVE IInv'
    OBVIOUS
  <1> DEFINE e == Order[at]
  <1>1. /\ helper = "backup" /\ Working /\ UNCHANGED <<appVars, mode, child, pkg, stage, marks>>
        /\ at \in 1..Len(Order) /\ e \in Entries
        /\ \A j \in 1..Len(Order) : IF j < at THEN Swapped(Order[j]) ELSE Untouched(Order[j])
    BY OrderFacts DEF BackUp, IInv, Place, Working
  <1>2. Untouched(e) /\ child.st \notin {"starting", "acked", "unconfirmed"}
    BY <1>1 DEF IInv, Started
  <1>3. CASE helper' = "replace"
    <2>1. /\ at' = at /\ clean' = clean
          /\ \/ inst[e] = "none" /\ UNCHANGED <<inst, bak>>
             \/ bak' = [bak EXCEPT ![e] = inst[e]] /\ inst' = [inst EXCEPT ![e] = "none"]
      BY <1>1, <1>3 DEF BackUp, Fail
    <2>2. inst \in [Entries -> {"old", "new", "bad", "none"}] /\ bak \in [Entries -> {"old", "none"}]
          /\ inst[e] \in {"old", "none"}
      BY <1>1, <1>2, ConstantsTyped DEF IInv, TypeOK, Untouched
    <2>3. inst' \in [Entries -> {"old", "new", "bad", "none"}] /\ bak' \in [Entries -> {"old", "none"}]
      BY <2>1, <2>2
    <2>4. TypeOK' /\ Working'
      BY <1>1, <1>3, <2>1, <2>3 DEF IInv, TypeOK, Working
    <2>5. Moved(e)'
      BY <1>1, <1>2, <2>1, <2>2 DEF Untouched, Moved
    <2>6. ASSUME NEW j \in 1..Len(Order), j # at
          PROVE  IF j < at THEN Swapped(Order[j])' ELSE Untouched(Order[j])'
      <3>1. Order[j] # e /\ Order[j] \in Entries
        BY <1>1, <2>6, OrderFacts
      <3>2. inst'[Order[j]] = inst[Order[j]] /\ bak'[Order[j]] = bak[Order[j]] /\ pkg' = pkg
        BY <1>1, <2>1, <2>2, <3>1
      <3> QED BY <1>1, <3>2 DEF Swapped, Untouched
    <2>7. Place'
      BY <1>1, <1>3, <2>1, <2>5, <2>6 DEF Place
    <2>8. Started'
      BY <1>1, <1>3 DEF IInv, Started, Waiting, Working
    <2>9. \A x \in Entries : inst'[x] # "bad"
      BY <2>1, <2>2 DEF IInv, Offer
    <2> QED BY <1>1, <1>3, <2>4, <2>7, <2>8, <2>9, WorkingKeeps
  <1>4. CASE Fail /\ UNCHANGED <<inst, bak>>
    <2>1. TypeOK'
      BY <1>1, <1>4, OrderFacts DEF Fail, IInv, TypeOK
    <2>2. \A x \in Entries : Untouched(x) \/ Moved(x) \/ Swapped(x)
      BY <1>1, OrderFacts
    <2> QED BY <1>1, <1>2, <1>4, <2>1, <2>2, FailKeeps
  <1> QED BY <1>3, <1>4 DEF BackUp

\* The entry of the package takes its place.
LEMMA ReplaceKeeps == IInv /\ Replace => IInv'
  <1> SUFFICES ASSUME IInv, Replace PROVE IInv'
    OBVIOUS
  <1>0. PICK i \in 1..Len(Order) : i = at
    BY DEF Replace, IInv, Place
  <1> DEFINE e == Order[i]
  <1>1. /\ helper = "replace" /\ Working /\ UNCHANGED <<appVars, mode, child, bak, stage, marks>>
        /\ e \in Entries /\ Moved(e)
        /\ \A j \in 1..Len(Order) \ {i} : IF j < i THEN Swapped(Order[j]) ELSE Untouched(Order[j])
    BY <1>0, OrderFacts DEF Replace, IInv, Place, Working
  <1>2. child.st \notin {"starting", "acked", "unconfirmed"}
    BY <1>1 DEF IInv, Started
  <1>3. CASE Fail /\ UNCHANGED <<inst, pkg>>
    <2>1. TypeOK'
      BY <1>1, <1>3, OrderFacts DEF Fail, IInv, TypeOK
    <2>2. \A x \in Entries : Untouched(x) \/ Moved(x) \/ Swapped(x)
      BY <1>1, OrderFacts
    <2> QED BY <1>1, <1>2, <1>3, <2>1, <2>2, FailKeeps
  <1>4. CASE ~(Fail /\ UNCHANGED <<inst, pkg>>)
    <2>1. /\ inst' = [inst EXCEPT ![e] = pkg[e]] /\ pkg' = [pkg EXCEPT ![e] = "none"] /\ clean' = clean
          /\ IF i = Len(Order) THEN helper' = "replaced" /\ at' = i
                              ELSE helper' = "backup" /\ at' = i + 1
      BY <1>0, <1>4 DEF Replace
    <2>2. inst \in [Entries -> {"old", "new", "bad", "none"}] /\ pkg \in [Entries -> {"new", "bad", "none"}]
          /\ pkg[e] = "new"
      BY <1>1 DEF IInv, TypeOK, Moved
    <2>3. inst' \in [Entries -> {"old", "new", "bad", "none"}] /\ pkg' \in [Entries -> {"new", "bad", "none"}]
      BY <1>1, <2>1, <2>2
    <2>10. at' \in 0..Len(Order)
      <3>1. at' = i \/ (i # Len(Order) /\ at' = i + 1)
        BY <2>1
      <3>2. Len(Order) \in Nat /\ i \in Nat /\ i <= Len(Order) /\ i >= 1
        BY OrderFacts
      <3> HIDE DEF e
      <3> QED BY <3>1, <3>2
    <2>4. TypeOK' /\ Working' /\ helper' # "opening"
      BY <1>1, <2>1, <2>3, <2>10 DEF IInv, TypeOK, Working
    <2>5. Swapped(e)'
      BY <1>1, <2>1, <2>2 DEF Moved, Swapped
    <2>6. ASSUME NEW j \in 1..Len(Order), j # i
          PROVE  IF j < i THEN Swapped(Order[j])' ELSE Untouched(Order[j])'
      <3>1. Order[j] # e /\ Order[j] \in Entries
        BY <1>1, <2>6, OrderFacts
      <3>2. inst'[Order[j]] = inst[Order[j]] /\ pkg'[Order[j]] = pkg[Order[j]] /\ bak' = bak
        BY <1>1, <2>1, <2>2, <3>1
      <3> QED BY <1>1, <2>6, <3>2 DEF Swapped, Untouched
    <2>7. Place'
      <3>1. CASE i = Len(Order)
        <4>1. \A j \in 1..Len(Order) : Swapped(Order[j])'
          BY <3>1, <2>5, <2>6, OrderFacts
        <4> QED BY <3>1, <4>1, <2>1, OrderFacts DEF Place
      <3>2. CASE i # Len(Order)
        <4>0. at' = i + 1 /\ helper' = "backup"
          BY <3>2, <2>1
        <4>3. Len(Order) \in Nat /\ i \in Nat /\ i <= Len(Order) /\ i >= 1
          BY OrderFacts
        <4>1. at' \in 1..Len(Order)
          BY <3>2, <4>0, <4>3
        <4>2. \A j \in 1..Len(Order) : IF j < at' THEN Swapped(Order[j])' ELSE Untouched(Order[j])'
          <5>1. ASSUME NEW j \in 1..Len(Order), j < i + 1 PROVE Swapped(Order[j])'
            BY <5>1, <2>5, <2>6, <4>3
          <5>2. ASSUME NEW j \in 1..Len(Order), ~(j < i + 1) PROVE Untouched(Order[j])'
            <6>1. j # i /\ ~(j < i)
              BY <5>2, <4>3
            <6> QED BY <6>1, <2>6
          <5> QED BY <5>1, <5>2, <4>0
        <4> QED BY <4>0, <4>1, <4>2 DEF Place
      <3> QED BY <3>1, <3>2
    <2>8. Started'
      BY <1>1, <2>1 DEF IInv, Started, Waiting, Working
    <2>9. \A x \in Entries : inst'[x] # "bad"
      BY <2>1, <2>2 DEF IInv, Offer
    <2> QED BY <1>1, <2>4, <2>7, <2>8, <2>9, WorkingKeeps
  <1> QED BY <1>3, <1>4

\* The outcome is recorded after the last entry, or that fails.
LEMMA ReplacedKeeps == IInv /\ Replaced => IInv'
  <1> SUFFICES ASSUME IInv, Replaced PROVE IInv'
    OBVIOUS
  <1>1. /\ helper = "replaced" /\ Working /\ UNCHANGED <<appVars, child, tree, stage, ready, finished, restarted>>
        /\ \/ outcome' = "updated" /\ mode' = "updated" /\ helper' = "restart" /\ UNCHANGED <<at, clean>>
           \/ Fail /\ UNCHANGED <<mode, outcome>>
    BY DEF Replaced, WriteOutcome, Working
  <1>2. \A e \in Entries : Swapped(e)
    BY <1>1 DEF IInv, Place
  <1>3. child.st \notin {"starting", "acked", "unconfirmed"}
    BY <1>1 DEF IInv, Started
  <1>4. CASE Fail /\ UNCHANGED <<mode, outcome>>
    <2>1. TypeOK'
      BY <1>1, <1>4, OrderFacts DEF Fail, IInv, TypeOK
    <2> QED BY <1>1, <1>2, <1>3, <1>4, <2>1, FailKeeps
  <1>5. CASE outcome' = "updated" /\ mode' = "updated" /\ helper' = "restart" /\ UNCHANGED <<at, clean>>
    <2>1. TypeOK' /\ Working'
      BY <1>1, <1>5 DEF IInv, TypeOK, Working
    <2>2. \A e \in Entries : Swapped(e)'
      BY <1>1, <1>2 DEF Swapped
    <2>3. Place'
      BY <1>5, <2>2 DEF Place
    <2>4. Started'
      BY <1>1, <1>3, <1>5 DEF IInv, Started, Waiting, Working
    <2> QED BY <1>1, <1>5, <2>1, <2>3, <2>4, WorkingKeeps DEF IInv, Offer
  <1> QED BY <1>1, <1>4, <1>5

\* The transaction was not opened: the record of it, or the end.
LEMMA UnopenedKeeps == IInv /\ Unopened => IInv'
  <1> SUFFICES ASSUME IInv, Unopened PROVE IInv'
    OBVIOUS
  <1>1. /\ helper = "unopened" /\ Working /\ UNCHANGED <<appVars, child, tree, stage, ready, finished, restarted>>
        /\ UNCHANGED <<at, clean>>
        /\ \/ outcome' = "kept" /\ mode' = "unopened" /\ helper' = "restart"
           \/ helper' = "gone" /\ UNCHANGED <<mode, outcome>>
    BY DEF Unopened, WriteOutcome, Working, Ends
  <1>2. TypeOK'
    BY <1>1 DEF IInv, TypeOK
  <1>3. CASE helper' = "gone"
    BY <1>1, <1>2, <1>3, EndsKeeps
  <1>4. CASE outcome' = "kept" /\ mode' = "unopened" /\ helper' = "restart"
    <2>1. \A e \in Entries : Back(e)'
      BY <1>1 DEF IInv, Place, Back
    <2>2. Place' /\ Working'
      BY <1>4, <2>1 DEF Place, Working
    <2>3. Started'
      BY <1>1, <1>4 DEF IInv, Started, Waiting, Working
    <2> QED BY <1>1, <1>2, <1>4, <2>2, <2>3, WorkingKeeps DEF IInv, Offer
  <1> QED BY <1>1, <1>3, <1>4

\* An error once the new app was to be started: the rollback, or the end.
LEMMA RestartFailedKeeps ==
  ASSUME IInv, helper \in {"restart", "giveup"}, RestartFailed,
         UNCHANGED <<appVars, mode, tree, stage, marks>>,
         child' = child \/ child' = [child EXCEPT !.st = "gone"],
         child'.st \notin {"starting", "acked", "unconfirmed"}
  PROVE  IInv'
  <1>1. Working /\ ~finished /\ app = "gone"
    BY DEF IInv, Exclusion, Started, Working
  <1>2. child' \in [st : {"none", "starting", "acked", "unconfirmed", "gone"},
                    ver : {"none", "old", "new"}, acked : BOOLEAN]
    BY DEF IInv, TypeOK
  <1>3. child' = child \/ child'.st = "gone"
    BY DEF IInv, TypeOK
  <1>4. CASE mode = "updated"
    <2>1. Fail /\ \A e \in Entries : Swapped(e)
      BY <1>4 DEF RestartFailed, IInv, Place
    <2>2. TypeOK'
      BY <1>2, <2>1, OrderFacts DEF Fail, IInv, TypeOK
    <2> QED BY <1>1, <1>3, <2>1, <2>2, FailKeeps
  <1>5. CASE mode # "updated"
    <2>1. helper' = "gone" /\ UNCHANGED <<at, clean>>
      BY <1>5 DEF RestartFailed, Ends
    <2>2. TypeOK'
      BY <1>2, <2>1 DEF IInv, TypeOK
    <2> QED BY <1>1, <1>3, <2>1, <2>2, EndsKeeps
  <1> QED BY <1>4, <1>5

\* The new app is started.
LEMMA RestartKeeps == IInv /\ Restart => IInv'
  <1> SUFFICES ASSUME IInv, Restart PROVE IInv'
    OBVIOUS
  <1>1. /\ helper = "restart" /\ Working /\ UNCHANGED <<appVars, mode, tree, stage, marks>>
        /\ child.st \notin {"starting", "acked", "unconfirmed"} /\ ~restarted
    BY DEF Restart, IInv, Started, Working
  <1>2. CASE RestartFailed /\ UNCHANGED child
    BY <1>1, <1>2, RestartFailedKeeps
  <1>3. CASE ~(RestartFailed /\ UNCHANGED child)
    <2>1. /\ child' = [st |-> "starting", ver |-> inst[Exe], acked |-> FALSE]
          /\ helper' = "await" /\ UNCHANGED <<at, clean>>
      BY <1>3 DEF Restart
    <2>2. \/ outcome = "updated" /\ inst[Exe] = "new"
          \/ outcome = "kept" /\ inst[Exe] = "old"
      BY <1>1, OrderFacts, ConstantsTyped DEF IInv, Place, Swapped, Back
    <2>3. TypeOK' /\ Working'
      BY <1>1, <2>1, <2>2 DEF IInv, TypeOK, Working
    <2>4. Place'
      BY <1>1, <2>1 DEF IInv, Place, Swapped, Back
    <2>5. Started'
      BY <1>1, <2>1, <2>2 DEF IInv, Started, Waiting, Working
    <2> QED BY <1>1, <2>1, <2>3, <2>4, <2>5, WorkingKeeps DEF IInv, Offer
  <1> QED BY <1>2, <1>3

\* The new app reports its start in time.
LEMMA AwaitStartKeeps == IInv /\ AwaitStart => IInv'
  <1> SUFFICES ASSUME IInv, AwaitStart PROVE IInv'
    OBVIOUS
  <1>1. /\ helper = "await" /\ Working /\ Working'
        /\ helper' = IF restarted THEN "finishing" ELSE "giveup"
        /\ UNCHANGED <<appVars, at, mode, clean, child, tree, stage, marks>>
    BY DEF AwaitStart, Working
  <1>2. TypeOK'
    BY <1>1 DEF IInv, TypeOK
  <1>3. Place'
    BY <1>1 DEF IInv, Place, Swapped, Back
  <1>4. Started'
    BY <1>1 DEF IInv, Started, Waiting, Working
  <1> QED BY <1>1, <1>2, <1>3, <1>4, WorkingKeeps DEF IInv, Offer

\* The new app does not report its start.
LEMMA GiveUpKeeps == IInv /\ GiveUp => IInv'
  <1> SUFFICES ASSUME IInv, GiveUp PROVE IInv'
    OBVIOUS
  <1>1. child'.st = "gone" /\ child' = [child EXCEPT !.st = "gone"]
    BY DEF GiveUp, IInv, TypeOK
  <1> QED BY <1>1, RestartFailedKeeps DEF GiveUp

\* An entry is put back.
LEMMA RollBackKeeps == IInv /\ RollBack => IInv'
  <1> SUFFICES ASSUME IInv, RollBack PROVE IInv'
    OBVIOUS
  <1>1. /\ helper = "rollback" /\ Working /\ UNCHANGED <<appVars, mode, child, pkg, stage, marks>>
        /\ child.st \notin {"starting", "acked", "unconfirmed"}
    BY DEF RollBack, IInv, Started, Working
  <1>2. PICK i \in 0..Len(Order) : i = at
    BY <1>1 DEF IInv, Place
  <1>3. \A j \in 1..Len(Order) :
          IF j <= i THEN Untouched(Order[j]) \/ Moved(Order[j]) \/ Swapped(Order[j])
          ELSE Saved(Order[j]) /\ (clean => Back(Order[j]))
    BY <1>1, <1>2 DEF IInv, Place
  <1>4. Len(Order) \in Nat /\ i \in Nat /\ i <= Len(Order)
    BY OrderFacts
  <1>5. CASE i = 0
    <2>1. helper' = (IF clean THEN "restored" ELSE "gone") /\ UNCHANGED <<at, clean, inst, bak>>
      BY <1>2, <1>5 DEF RollBack
    <2>2. TypeOK'
      BY <1>1, <2>1 DEF IInv, TypeOK
    <2>3. CASE ~clean
      BY <1>1, <2>1, <2>2, <2>3, EndsKeeps
    <2>4. CASE clean
      <3>1. \A j \in 1..Len(Order) : Back(Order[j])
        BY <1>3, <1>4, <1>5, <2>4
      <3>2. \A e \in Entries : Back(e)'
        BY <1>1, <2>1, <3>1, OrderFacts DEF Back
      <3>3. Place' /\ Working' /\ helper' # "opening"
        BY <2>1, <2>4, <3>2 DEF Place, Working
      <3>4. Started'
        BY <1>1, <2>1, <2>4 DEF IInv, Started, Waiting, Working
      <3> QED BY <1>1, <2>1, <2>2, <3>3, <3>4, WorkingKeeps DEF IInv, Offer
    <2> QED BY <2>3, <2>4
  <1>6. CASE i # 0
    <2> DEFINE e == Order[i]
    <2>1. /\ at' = i - 1 /\ helper' = "rollback" /\ i \in 1..Len(Order) /\ e \in Entries
          /\ \/ Restore(e) /\ clean' = clean
             \/ RestoreFails(e) /\ clean' = FALSE
      BY <1>1, <1>2, <1>4, <1>6, OrderFacts DEF RollBack
    <2>2. Untouched(e) \/ Moved(e) \/ Swapped(e)
      BY <1>3, <1>4, <2>1
    <2>3. /\ inst \in [Entries -> {"old", "new", "bad", "none"}] /\ bak \in [Entries -> {"old", "none"}]
          /\ \A x \in Entries : inst[x] # "bad"
      BY DEF IInv, TypeOK, Offer
    <2>4. /\ inst' \in {inst, [inst EXCEPT ![e] = "old"], [inst EXCEPT ![e] = "none"]}
          /\ bak' \in {bak, [bak EXCEPT ![e] = "none"]}
      BY <2>1 DEF Restore, RestoreFails
    <2>5. /\ inst' \in [Entries -> {"old", "new", "bad", "none"}] /\ bak' \in [Entries -> {"old", "none"}]
          /\ \A x \in Entries : inst'[x] # "bad"
      BY <2>1, <2>3, <2>4
    <2>6. at' \in 0..Len(Order)
      BY <1>4, <1>6, <2>1
    <2>7. clean' \in BOOLEAN
      BY <2>1 DEF IInv, TypeOK
    <2>8. TypeOK' /\ Working'
      BY <1>1, <2>1, <2>5, <2>6, <2>7 DEF IInv, TypeOK, Working
    <2>9. Restore(e) => Back(e)'
      BY <1>1, <2>1, <2>2, <2>3, ConstantsTyped DEF Restore, Untouched, Moved, Swapped, Back
    <2>10. Restore(e) \/ RestoreFails(e) => Saved(e)'
      <3>1. Back(e)' => Saved(e)'
        BY <2>1, ConstantsTyped DEF Back, Saved
      <3>2. RestoreFails(e) => Saved(e)'
        BY <2>1, <2>2, <2>3, ConstantsTyped DEF RestoreFails, Untouched, Moved, Swapped, Saved
      <3> QED BY <2>9, <3>1, <3>2
    <2>11. ASSUME NEW j \in 1..Len(Order)
           PROVE  IF j <= i - 1 THEN Untouched(Order[j])' \/ Moved(Order[j])' \/ Swapped(Order[j])'
                  ELSE Saved(Order[j])' /\ (clean' => Back(Order[j])')
      <3>1. CASE j = i
        BY <3>1, <1>4, <2>1, <2>9, <2>10
      <3>2. CASE j # i
        <4>1. Order[j] # e /\ Order[j] \in Entries
          BY <2>1, <3>2, OrderFacts
        <4>2. inst'[Order[j]] = inst[Order[j]] /\ bak'[Order[j]] = bak[Order[j]] /\ pkg' = pkg
          BY <1>1, <2>1, <2>3, <2>4, <4>1
        <4>3. /\ Untouched(Order[j]) => Untouched(Order[j])'
              /\ Moved(Order[j]) => Moved(Order[j])'
              /\ Swapped(Order[j]) => Swapped(Order[j])'
              /\ Saved(Order[j]) => Saved(Order[j])'
              /\ Back(Order[j]) => Back(Order[j])'
          BY <4>2 DEF Untouched, Moved, Swapped, Saved, Back
        <4>4. clean' => clean
          BY <2>1
        <4>5. j <= i - 1 <=> j <= i
          BY <1>4, <3>2
        <4> QED BY <1>3, <4>3, <4>4, <4>5
      <3> QED BY <3>1, <3>2
    <2>12. Place'
      BY <2>1, <2>6, <2>11 DEF Place
    <2>13. Started'
      BY <1>1, <2>1 DEF IInv, Started, Waiting, Working
    <2> QED BY <1>1, <2>1, <2>5, <2>8, <2>12, <2>13, WorkingKeeps
  <1> QED BY <1>5, <1>6

\* The outcome is recorded after the rollback, or that fails.
LEMMA RestoredKeeps == IInv /\ Restored => IInv'
  <1> SUFFICES ASSUME IInv, Restored PROVE IInv'
    OBVIOUS
  <1>1. /\ helper = "restored" /\ Working /\ restarted' = FALSE
        /\ UNCHANGED <<appVars, at, clean, child, tree, stage, ready, finished>>
        /\ \/ outcome' = "kept" /\ mode' = "restored" /\ helper' = "restart"
           \/ helper' = "gone" /\ UNCHANGED <<mode, outcome>>
    BY DEF Restored, Ends, Working
  <1>2. TypeOK'
    <2>1. {cancelled', exit', clean', tampered', stage', ready', restarted', finished'} \subseteq BOOLEAN
      BY <1>1 DEF IInv, TypeOK
    <2>2. CASE outcome' = "kept" /\ mode' = "restored" /\ helper' = "restart"
      BY <1>1, <2>1, <2>2 DEF IInv, TypeOK
    <2>3. CASE helper' = "gone" /\ mode' = mode /\ outcome' = outcome
      BY <1>1, <2>1, <2>3 DEF IInv, TypeOK
    <2> QED BY <1>1, <2>2, <2>3
  <1>3. CASE helper' = "gone" /\ outcome' = outcome
    BY <1>1, <1>2, <1>3, EndsKeeps DEF IInv, Exclusion
  <1>4. CASE outcome' = "kept" /\ mode' = "restored" /\ helper' = "restart"
    <2>1. \A e \in Entries : Back(e)'
      BY <1>1 DEF IInv, Place, Back
    <2>2. Place' /\ Working'
      BY <1>4, <2>1 DEF Place, Working
    <2>3. Started'
      BY <1>1, <1>4 DEF IInv, Started, Waiting, Working
    <2> QED BY <1>1, <1>2, <1>4, <2>2, <2>3, WorkingKeeps DEF IInv, Offer
  <1> QED BY <1>1, <1>3, <1>4

\* The helper ends as it should, leaving its mark if it can.
LEMMA FinishKeeps == IInv /\ Finish => IInv'
  <1> SUFFICES ASSUME IInv, Finish PROVE IInv'
    OBVIOUS
  <1>1. /\ helper = "finishing" /\ Working /\ helper' = "gone" /\ finished' \in BOOLEAN
        /\ UNCHANGED <<appVars, at, mode, clean, child, tree, stage, ready, restarted, outcome>>
    BY DEF Finish, Ends, Working
  <1>2. TypeOK'
    <2>1. {cancelled', exit', clean', tampered', stage', ready', restarted'} \subseteq BOOLEAN
      BY <1>1 DEF IInv, TypeOK
    <2>2. finished' = TRUE \/ finished' = FALSE
      BY <1>1
    <2>3. {cancelled', exit', clean', tampered', stage', ready', restarted', finished'} \subseteq BOOLEAN
      BY <2>1, <2>2
    <2> QED BY <1>1, <2>3 DEF IInv, TypeOK
  <1>3. Exclusion' /\ Offer' /\ Intact' /\ Started' /\ Place'
    <2>1. Exclusion' /\ Intact' /\ Started'
      BY <1>1 DEF IInv, Exclusion, Intact, Started, Waiting, Working
    <2>2. Offer'
      BY <1>1 DEF IInv, Offer, Waiting, Working, Accepted
    <2>3. Place'
      BY <1>1 DEF Place
    <2> QED BY <2>1, <2>2, <2>3
  <1>4. \/ outcome = "updated" /\ Updated
        \/ outcome = "kept" /\ Unharmed
    <2>1. inst \in [Entries -> {"old", "new", "bad", "none"}] /\ Original \in [Entries -> {"old", "new", "bad", "none"}]
      BY ConstantsTyped DEF IInv, TypeOK
    <2>2. \/ outcome = "updated" /\ \A e \in Entries : inst[e] = "new"
          \/ outcome = "kept" /\ \A e \in Entries : inst[e] = Original[e]
      BY <1>1 DEF IInv, Place, Swapped, Back
    <2> QED BY <2>1, <2>2 DEF Updated, Unharmed
  <1>5. child.acked /\ stage
    BY <1>1 DEF IInv, Exclusion, Started
  <1>6. NothingLost'
    BY <1>1 DEF IInv, NothingLost, Updated, Unharmed
  <1>7. AllOrNothing'
    BY <1>1, <1>4, <1>5 DEF IInv, Started, AllOrNothing, Updated, Unharmed
  <1> QED BY <1>2, <1>3, <1>6, <1>7 DEF IInv

\* Any step of the helper.
LEMMA HelperKeeps == IInv /\ Helper => IInv'
  BY AnnounceKeeps, AwaitAppKeeps, OpenKeeps, BackUpKeeps, ReplaceKeeps, ReplacedKeeps, UnopenedKeeps,
     RestartKeeps, AwaitStartKeeps, GiveUpKeeps, RollBackKeeps, RestoredKeeps, FinishKeeps DEF Helper

-----------------------------------------------------------------------------
(* The app that was started *)

\* The new app reports its start.
LEMMA AcknowledgeKeeps == IInv /\ Acknowledge => IInv'
  <1> SUFFICES ASSUME IInv, Acknowledge PROVE IInv'
    OBVIOUS
  <1>1. /\ child.st = "starting" /\ UNCHANGED <<appVars, helperVars, tree, stage, ready, finished, outcome>>
        /\ \/ /\ outcome # "none" /\ (outcome = "updated" => child.ver = "new") /\ helper # "gone"
              /\ child' = [child EXCEPT !.st = "acked", !.acked = TRUE] /\ restarted' = TRUE
           \/ child' = [child EXCEPT !.st = "unconfirmed"] /\ restarted' = restarted
    BY DEF Acknowledge
  <1>2. child \in [st : {"none", "starting", "acked", "unconfirmed", "gone"},
                   ver : {"none", "old", "new"}, acked : BOOLEAN]
    BY DEF IInv, TypeOK
  <1>3. /\ child' \in [st : {"none", "starting", "acked", "unconfirmed", "gone"},
                        ver : {"none", "old", "new"}, acked : BOOLEAN]
        /\ child'.ver = child.ver /\ (child.acked => child'.acked)
        /\ child'.st \in {"acked", "unconfirmed"}
        /\ child'.st = "acked" => child'.acked /\ helper # "gone"
        /\ restarted' = restarted \/ child'.acked
    BY <1>1, <1>2
  <1>4. restarted' \in BOOLEAN
    BY <1>1 DEF IInv, TypeOK
  <1>5. TypeOK'
    BY <1>1, <1>3, <1>4 DEF IInv, TypeOK
  <1>6. /\ helper \in {"await", "giveup", "finishing", "gone"} /\ app = "gone"
        /\ stage => outcome # "none" /\ ((outcome = "updated") = (child.ver = "new"))
    BY <1>1 DEF IInv, Started, Intact, NoChild, TypeOK
  <1>7. Exclusion' /\ Intact'
    BY <1>1, <1>6 DEF IInv, Exclusion, Intact, Waiting, Working
  <1>8. Offer' /\ Place'
    <2>1. Offer'
      BY <1>1 DEF IInv, Offer, Waiting, Working, Accepted
    <2>2. Place'
      BY <1>1 DEF IInv, Place, Untouched, Moved, Swapped, Back, Saved
    <2> QED BY <2>1, <2>2
  <1>9. Started'
    <2>1. helper \in {"await", "giveup", "finishing"} /\ restarted' => child'.acked
      BY <1>3 DEF IInv, Started
    <2>2. helper = "finishing" => restarted'
      BY <1>1 DEF IInv, Started
    <2>3. Waiting \/ Working => ~finished
      BY DEF IInv, Started
    <2> QED BY <1>1, <1>3, <1>6, <2>1, <2>2, <2>3 DEF Started, Waiting, Working
  <1>10. NothingLost'
    BY <1>1 DEF IInv, NothingLost, Updated, Unharmed
  <1>11. AllOrNothing'
    BY <1>1, <1>3, <1>6 DEF IInv, AllOrNothing, Updated, Unharmed
  <1> QED BY <1>5, <1>7, <1>8, <1>9, <1>10, <1>11 DEF IInv

\* The new app ends.
LEMMA ChildEndsKeeps == IInv /\ ChildEnds => IInv'
  <1> SUFFICES ASSUME IInv, ChildEnds PROVE IInv'
    OBVIOUS
  <1>1. UNCHANGED <<appVars, helperVars, tree, stage, marks>>
    BY DEF ChildEnds
  <1>2. /\ child' \in [st : {"none", "starting", "acked", "unconfirmed", "gone"},
                        ver : {"none", "old", "new"}, acked : BOOLEAN]
        /\ child'.st = "gone" /\ child'.acked = child.acked
    BY DEF ChildEnds, IInv, TypeOK
  <1>3. app = "gone"
    BY DEF ChildEnds, IInv, Intact, NoChild, TypeOK
  <1>4. TypeOK'
    BY <1>1, <1>2 DEF IInv, TypeOK
  <1>5. Exclusion' /\ Intact'
    BY <1>1, <1>3 DEF IInv, Exclusion, Intact, Waiting, Working
  <1>6. Offer'
    BY <1>1 DEF IInv, Offer, Waiting, Working, Accepted
  <1>7. Place'
    BY <1>1 DEF IInv, Place, Untouched, Moved, Swapped, Back, Saved
  <1>8. Started'
    BY <1>1, <1>2 DEF IInv, Started, Waiting, Working
  <1>9. NothingLost' /\ AllOrNothing'
    BY <1>1, <1>2 DEF IInv, NothingLost, AllOrNothing, Updated, Unharmed
  <1> QED BY <1>4, <1>5, <1>6, <1>7, <1>8, <1>9 DEF IInv

\* The new app deletes the staging directory.
LEMMA CleanUpKeeps == IInv /\ CleanUp => IInv'
  <1> SUFFICES ASSUME IInv, CleanUp PROVE IInv'
    OBVIOUS
  <1>1. /\ child.st = "acked" /\ helper = "gone" /\ finished
        /\ UNCHANGED <<appVars, helperVars, child, inst>>
        /\ stage' = FALSE /\ bak' = None /\ pkg' = None
        /\ ready' = FALSE /\ restarted' = FALSE /\ finished' = FALSE /\ outcome' = "none"
    BY DEF CleanUp, RemoveStage
  <1>2. TypeOK'
    <2>1. {cancelled', exit', clean', tampered', stage', ready', restarted', finished'} \subseteq BOOLEAN
      BY <1>1 DEF IInv, TypeOK
    <2> QED BY <1>1, <2>1, ConstantsTyped, SMTT(30) DEF IInv, TypeOK
  <1>3. app = "gone"
    BY <1>1 DEF IInv, Intact, TypeOK
  <1>4. Exclusion' /\ Intact' /\ Place' /\ Started' /\ AllOrNothing'
    BY <1>1, <1>3 DEF IInv, Exclusion, Intact, Place, Started, AllOrNothing, Waiting, Working
  <1>5. Offer'
    BY <1>1 DEF IInv, Offer, Waiting, Working, Accepted
  <1>6. NothingLost'
    BY <1>1, ConstantsTyped, InstallAssumption DEF IInv, AllOrNothing, NothingLost, Updated, Unharmed
  <1> QED BY <1>2, <1>4, <1>5, <1>6 DEF IInv

\* Nothing happens.
LEMMA StutterKeeps == IInv /\ UNCHANGED vars => IInv'
  <1> SUFFICES ASSUME IInv, UNCHANGED vars PROVE IInv'
    OBVIOUS
  <1>1. TypeOK' /\ Exclusion'
    BY DEF vars, IInv, TypeOK, Exclusion, Waiting, Working
  <1>2. Offer'
    BY DEF vars, IInv, Offer, Waiting, Working, Accepted
  <1>3. Intact' /\ Place' /\ Started' /\ NothingLost' /\ AllOrNothing'
    BY FilesStill DEF vars
  <1> QED BY <1>1, <1>2, <1>3 DEF IInv

-----------------------------------------------------------------------------
(* The theorems *)

\* What every reachable state satisfies.
LEMMA Invariance == Spec => []IInv
  <1>1. IInv /\ [Next]_vars => IInv'
    BY PublishKeeps, TamperKeeps, CheckKeeps, DownloadKeeps, CancelKeeps, QuitKeeps, WorkerKeeps,
       HelperKeeps, HelperDiesKeeps, AcknowledgeKeeps, CleanUpKeeps, ChildEndsKeeps, StutterKeeps
       DEF Next, Child
  <1> QED BY <1>1, Initially, PTL DEF Spec

\* The state of the app, the helper, the started app and the files is well typed.
THEOREM TypeCorrect == Spec => []TypeOK
  <1>1. IInv => TypeOK
    BY DEF IInv
  <1> QED BY <1>1, Invariance, PTL

\* Whatever step fails or is cut short, the previous version is there in
\* pieces that can be put together, until the new one is complete.
THEOREM NothingIsLost == Spec => []NothingLost
  <1>1. IInv => NothingLost
    BY DEF IInv
  <1> QED BY <1>1, Invariance, PTL

\* A helper that finished left one version, whole, and the record of it.
THEOREM OneVersionRemains == Spec => []AllOrNothing
  <1>1. IInv => AllOrNothing
    BY DEF IInv
  <1> QED BY <1>1, Invariance, PTL

\* Only the newer version that was offered and verified is installed.
THEOREM InstalledIsVerified == Spec => []OnlyVerified
  <1>1. IInv => OnlyVerified
    BY DEF IInv, Offer, Accepted, OnlyVerified
  <1> QED BY <1>1, Invariance, PTL

\* A download that was cancelled in time installs nothing.
THEOREM CancellationHolds == Spec => []CancelHonoured
  <1>1. IInv => CancelHonoured
    BY DEF IInv, TypeOK, Exclusion, Waiting, Working, CancelHonoured
  <1> QED BY <1>1, Invariance, PTL

\* No installed entry changes while the app that is updated runs.
THEOREM ReplacedAfterExit == Spec => AppHasExited
  <1> DEFINE A == inst' # inst => app = "gone"
  <1>1. IInv /\ [Next]_vars => [A]_vars
    <2> SUFFICES ASSUME IInv, Next, inst' # inst PROVE app = "gone"
      OBVIOUS
    <2>1. CASE Worker
      BY <2>1 DEF Worker, Found, Prepare, Begin, FetchSums, OpenArchive, Chunk, EndOfArchive, Extract,
         AcceptPackage, Step, WorkerFails, HandOff, Launch, HelperIsReady, HelperIsNot
    <2>2. CASE Helper
      BY <2>2 DEF Helper, Announce, AwaitApp, Open, BackUp, Replace, Replaced, Unopened, Restart,
         AwaitStart, GiveUp, RollBack, Restored, Finish, IInv, Exclusion, Working
    <2>3. CASE Child \/ ChildEnds \/ HelperDies
      BY <2>3 DEF Child, Acknowledge, CleanUp, ChildEnds, HelperDies
    <2>4. CASE Publish \/ Tamper \/ Check \/ Download \/ Cancel \/ Quit
      BY <2>4 DEF Publish, Tamper, Check, Download, Cancel, Quit
    <2> QED BY <2>1, <2>2, <2>3, <2>4 DEF Next
  <1> QED BY <1>1, Invariance, PTL DEF Spec, AppHasExited
=============================================================================
