--------------------------- MODULE UpdateInstall ---------------------------
(***************************************************************************)
(* Finding and installing an update (macvnc-app, updater/mod.rs,           *)
(* updater/package.rs and updater/install.rs): the running app asks for    *)
(* the latest release, downloads, verifies and unpacks its package, hands  *)
(* over to a helper process and exits; the helper verifies the package     *)
(* again, replaces the managed entries of the application folder one by    *)
(* one, starts the new app and waits for it to acknowledge, and rolls      *)
(* everything back if any of that fails.                                   *)
(*                                                                         *)
(* Five actors share the file system: the app's UI thread, the thread that *)
(* looks for a release, the download worker, the helper, and the app the   *)
(* helper starts.  Any file operation and any request may fail, any        *)
(* process may disappear at any time, and a wait may run into its time     *)
(* limit at any time.  The site may publish a release or replace the files *)
(* of one between any two requests, and another program may touch the      *)
(* unpacked package until the helper verifies it.                          *)
(*                                                                         *)
(* Data: an archive is [version, size, sound]: what its UPDATE.json says,  *)
(* its length in chunks, and whether it has the layout, the files and the  *)
(* executable that extract requires.  A checksum is the archive it is of.  *)
(* An entry of a folder is "old", "new", "bad" or "none".                  *)
(***************************************************************************)
EXTENDS Naturals, Sequences, FiniteSets

CONSTANTS
  Order,        \* managed top-level entries, in the order they are replaced
  Installed,    \* those the installed version has
  Current,      \* CARGO_PKG_VERSION
  Tags,         \* versions the site has releases of
  Unstable,     \* those of them that are drafts or pre-releases
  Archives,     \* packages it may offer
  MaxAttempts,  \* bound: downloads started
  MaxPublished  \* bound: what the site publishes after the beginning

Entries == {Order[i] : i \in DOMAIN Order}
Exe     == Order[Len(Order)]     \* macvnc-app.exe sorts last

ASSUME InstallAssumption ==
  /\ Order \in Seq(Entries) /\ Order # <<>>
  /\ \A i, j \in DOMAIN Order : Order[i] = Order[j] => i = j
  /\ Installed \subseteq Entries /\ Exe \in Installed
  /\ Current \in Nat /\ Tags \subseteq Nat /\ Tags # {} /\ Unstable \subseteq Tags
  /\ Archives # {} /\ Archives \subseteq [version : Nat, size : Nat, sound : BOOLEAN]
  /\ MaxAttempts \in Nat \ {0} /\ MaxPublished \in Nat

NoArchive == [version |-> 0, size |-> 0, sound |-> FALSE]
NoRelease == [version |-> 0, size |-> 0]
Garbled   == NoArchive     \* a checksum file that checksum refuses
Assets    == [archive : Archives, sums : Archives \cup {Garbled}, listed : BOOLEAN]

VARIABLES
  (* the app that updates itself *)
  app,        \* its process: "running" or "gone"
  upd,        \* Shared.state
  cancelled,  \* Shared.cancelled
  exit,       \* Shared.exit
  release,    \* the release that was offered last
  worker,     \* where the download thread is
  attempts,   \* downloads started
  expected, body, bytes,   \* prepare: checksum, archive, chunks written
  (* the helper process *)
  helper,     \* where run_helper is, "gone" once the process has ended
  at,         \* index in Order of the entry being replaced or restored
  mode,       \* why it restarts the app: "updated", "restored" or "unopened"
  clean,      \* rollback has met no failure
  (* the app the helper starts *)
  child,      \* [st, ver, acked]: process, version, whether it acknowledged
  (* the site *)
  latest,     \* version of the latest release
  assets,     \* its files, and those of the other versions
  published,  \* releases and files published
  (* files *)
  inst, bak, pkg,   \* [Entries -> {"old", "new", "none"}]: install folder,
                    \* stage/backup, stage/package
  tampered,   \* another program has touched the package
  stage,      \* the staging directory exists
  ready, restarted, finished,   \* marker files in it
  outcome     \* outcome.json: "none", "updated" or "kept"

fetch      == <<expected, body, bytes>>
others     == <<latest, assets, published, tampered>>
appVars    == <<app, upd, cancelled, exit, release, worker, attempts, fetch, others>>
helperVars == <<helper, at, mode, clean>>
tree       == <<inst, bak, pkg>>
marks      == <<ready, restarted, finished, outcome>>
vars       == <<appVars, helperVars, child, tree, stage, marks>>

Original == [e \in Entries |-> IF e \in Installed THEN "old" ELSE "none"]
None     == [e \in Entries |-> "none"]
NoChild  == [st |-> "none", ver |-> "none", acked |-> FALSE]

TypeOK ==
  /\ app \in {"running", "gone"}
  /\ upd \in {"idle", "checking", "current", "available", "downloading",
              "restarting", "failed"}
  /\ {cancelled, exit, clean, tampered, stage, ready, restarted, finished}
       \subseteq BOOLEAN
  /\ release \in [version : Nat, size : Nat]
  /\ worker \in {"none", "begin", "sums", "archive", "chunks", "extract", "handoff",
                 "launching", "polling", "done"}
  /\ expected \in Archives \cup {NoArchive} /\ body \in Archives \cup {NoArchive}
  /\ bytes \in Nat /\ bytes <= body.size
  /\ latest \in Tags /\ assets \in [Tags -> Assets] /\ published \in 0..MaxPublished
  /\ attempts \in 0..MaxAttempts
  /\ helper \in {"none", "starting", "waiting", "opening", "backup", "replace",
                 "replaced", "rollback", "restored", "unopened", "restart",
                 "await", "giveup", "finishing", "gone"}
  /\ at \in 0..Len(Order)
  /\ mode \in {"none", "updated", "restored", "unopened"}
  /\ child \in [st : {"none", "starting", "acked", "unconfirmed", "gone"},
                ver : {"none", "old", "new"}, acked : BOOLEAN]
  /\ inst \in [Entries -> {"old", "new", "bad", "none"}]
  /\ bak \in [Entries -> {"old", "none"}]
  /\ pkg \in [Entries -> {"new", "bad", "none"}]
  /\ outcome \in {"none", "updated", "kept"}

Init ==
  /\ app = "running" /\ upd = "idle"
  /\ cancelled = FALSE /\ exit = FALSE /\ release = NoRelease
  /\ worker = "none" /\ attempts = 0
  /\ expected = NoArchive /\ body = NoArchive /\ bytes = 0
  /\ latest \in Tags /\ published = 0
  /\ \E a \in Archives : assets = [t \in Tags |-> [archive |-> a, sums |-> a, listed |-> TRUE]]
  /\ helper = "none" /\ at = 0 /\ mode = "none" /\ clean = TRUE
  /\ child = NoChild
  /\ inst = Original /\ bak = None /\ pkg = None /\ tampered = FALSE
  /\ stage = FALSE
  /\ ready = FALSE /\ restarted = FALSE /\ finished = FALSE /\ outcome = "none"

\* The staging directory is deleted, with everything in it.
RemoveStage ==
  /\ stage' = FALSE /\ bak' = None /\ pkg' = None
  /\ ready' = FALSE /\ restarted' = FALSE /\ finished' = FALSE /\ outcome' = "none"

-----------------------------------------------------------------------------
(* The site, and other programs *)

\* A release is published, or the files of one are replaced, one at a time; of
\* interest while the app may still ask for them.
Publish ==
  /\ published < MaxPublished /\ published' = published + 1
  /\ worker \in {"none", "begin", "sums", "archive"} /\ helper = "none"
  /\ \/ latest' \in Tags \ {latest} /\ UNCHANGED assets
     \/ /\ \E t \in Tags, f \in Assets :
             /\ Cardinality({k \in DOMAIN f : f[k] # assets[t][k]}) = 1
             /\ assets' = [assets EXCEPT ![t] = f]
        /\ UNCHANGED latest
  /\ UNCHANGED <<app, upd, cancelled, exit, release, worker, attempts, fetch, tampered,
                 helperVars, child, tree, stage, marks>>

\* A virus scanner takes a file of the unpacked package away, or something
\* changes one, before the helper verifies it.
Tamper ==
  /\ ~tampered /\ tampered' = TRUE
  /\ worker \notin {"begin", "sums", "archive", "chunks", "extract"}
  /\ helper \in {"none", "starting", "waiting", "opening"}
  /\ \E e \in Entries : /\ pkg[e] = "new"
                        /\ pkg' \in {[pkg EXCEPT ![e] = x] : x \in {"bad", "none"}}
  /\ UNCHANGED <<app, upd, cancelled, exit, release, worker, attempts, fetch, latest,
                 assets, published, helperVars, child, inst, bak, stage, marks>>

-----------------------------------------------------------------------------
(* The app: UI thread, and the thread that looks for a release *)

Busy == upd \in {"checking", "downloading", "restarting"}

\* check, behind the button, at the start and once a day
Check ==
  /\ app = "running" /\ ~Busy /\ upd' = "checking"
  /\ UNCHANGED <<app, cancelled, exit, release, worker, attempts, fetch, others,
                 helperVars, child, tree, stage, marks>>

\* parse_release: what is offered, and that its files are listed once, within
\* the limits and where they belong.
Newer   == latest \notin Unstable /\ latest > Current
Listed  == assets[latest].listed
Offered == [version |-> latest, size |-> assets[latest].archive.size]

\* find_release: the request or the answer may be bad.
Found ==
  /\ app = "running" /\ upd = "checking"
  /\ \/ upd' = "failed" /\ UNCHANGED release
     \/ ~Newer /\ upd' = "current" /\ UNCHANGED release
     \/ Newer /\ Listed /\ upd' = "available" /\ release' = Offered
  /\ UNCHANGED <<app, cancelled, exit, worker, attempts, fetch, others, helperVars, child,
                 tree, stage, marks>>

\* download, behind the button
Download ==
  /\ app = "running" /\ upd = "available" /\ worker = "none"
  /\ attempts < MaxAttempts /\ attempts' = attempts + 1
  /\ cancelled' = FALSE /\ upd' = "downloading" /\ worker' = "begin"
  /\ expected' = NoArchive /\ body' = NoArchive /\ bytes' = 0
  /\ helper' = "none"
  /\ UNCHANGED <<app, exit, release, others, at, mode, clean, child, tree, stage, marks>>

\* cancel, from the button or when the Updater is dropped
Cancel ==
  /\ app = "running" /\ upd # "restarting"
  /\ cancelled' = TRUE
  /\ UNCHANGED <<app, upd, exit, release, worker, attempts, fetch, others, helperVars,
                 child, tree, stage, marks>>

\* The app ends: because should_exit says so, or because the user closes it.
\* The worker ends with it and cleans up nothing.
Quit ==
  /\ app = "running" /\ app' = "gone" /\ worker' = "none"
  /\ UNCHANGED <<upd, cancelled, exit, release, attempts, fetch, others, helperVars, child,
                 tree, stage, marks>>

-----------------------------------------------------------------------------
(* The app: download worker *)

\* Any error, a noticed cancellation included: the staging directory goes.
WorkerFails ==
  /\ upd' = "failed" /\ worker' = "none" /\ RemoveStage
  /\ UNCHANGED <<app, cancelled, exit, release, attempts, fetch, others, at, mode, clean,
                 child, inst>>

Preparing == worker \in {"begin", "sums", "archive", "chunks", "extract"}
Step(from, to) ==
  /\ worker = from /\ worker' = to
  /\ UNCHANGED <<app, upd, cancelled, exit, release, attempts, others, helperVars, child,
                 inst, bak, marks>>

\* prepare: the staging directory
Begin ==
  /\ Step("begin", "sums")
  /\ stage' = TRUE /\ UNCHANGED <<pkg, fetch>>

\* prepare: the checksum, which names the package once and is well formed
FetchSums ==
  /\ Step("sums", "archive") /\ ~cancelled
  /\ assets[release.version].sums # Garbled
  /\ expected' = assets[release.version].sums
  /\ UNCHANGED <<body, bytes, pkg, stage>>

\* prepare: the answer to the request for the archive, its length announced or
\* not
OpenArchive ==
  /\ Step("archive", "chunks")
  /\ body' = assets[release.version].archive /\ bytes' = 0
  /\ UNCHANGED <<expected, pkg, stage>>

\* prepare: one chunk, which must not exceed the declared size
Chunk ==
  /\ Step("chunks", "chunks") /\ ~cancelled
  /\ bytes < body.size /\ bytes < release.size
  /\ bytes' = bytes + 1
  /\ UNCHANGED <<expected, body, pkg, stage>>

\* prepare: the end of the answer, which may have been cut short
EndOfArchive ==
  /\ Step("chunks", "extract") /\ ~cancelled
  /\ bytes = release.size
  /\ bytes = body.size /\ body = expected
  /\ UNCHANGED <<fetch, pkg, stage>>

\* extract: one entry
Extract ==
  /\ Step("extract", "extract") /\ ~cancelled
  /\ \E i \in DOMAIN Order : /\ pkg[Order[i]] = "none"
                             /\ \A j \in 1..i - 1 : pkg[Order[j]] = "new"
                             /\ pkg' = [pkg EXCEPT ![Order[i]] = "new"]
  /\ UNCHANGED <<fetch, stage>>

\* not comparing UPDATE.json with the release
AcceptPackageUnnamed ==
  /\ Step("extract", "handoff")
  /\ body.sound /\ \A e \in Entries : pkg[e] = "new"
  /\ UNCHANGED <<fetch, pkg, stage>>

\* extract: the package has everything that is required and is the version of
\* the release; then the plan is written.
AcceptPackage ==
  /\ Step("extract", "handoff")
  /\ body.sound /\ body.version = release.version
  /\ \A e \in Entries : pkg[e] = "new"
  /\ UNCHANGED <<fetch, pkg, stage>>

Prepare ==
  \/ Begin \/ FetchSums \/ OpenArchive \/ Chunk \/ EndOfArchive \/ Extract \/ AcceptPackage
  \/ Preparing /\ WorkerFails /\ UNCHANGED helper

\* handing over without looking at the flag under the lock
HandOffUnlocked ==
  /\ worker = "handoff"
  /\ upd' = "restarting" /\ worker' = "launching"
  /\ UNCHANGED <<app, cancelled, exit, release, attempts, fetch, others, helperVars, child,
                 tree, stage, marks>>

\* The last look at the flag, under the lock that cancel takes.
HandOff ==
  /\ worker = "handoff"
  /\ IF cancelled
       THEN WorkerFails /\ UNCHANGED helper
       ELSE /\ upd' = "restarting" /\ worker' = "launching"
            /\ UNCHANGED <<app, cancelled, exit, release, attempts, fetch, others,
                           helperVars, child, tree, stage, marks>>

\* launch: copy the executable and start it.
Launch ==
  /\ worker = "launching"
  /\ \/ WorkerFails /\ UNCHANGED helper
     \/ /\ helper' = "starting" /\ worker' = "polling"
        /\ UNCHANGED <<app, upd, cancelled, exit, release, attempts, fetch, others, at,
                       mode, clean, child, tree, stage, marks>>

\* launch: the helper says it is ready; the app may exit.
HelperIsReady ==
  /\ worker = "polling" /\ ready
  /\ worker' = "done" /\ exit' = TRUE
  /\ UNCHANGED <<app, upd, cancelled, release, attempts, fetch, others, helperVars, child,
                 tree, stage, marks>>

\* launch: the helper has ended, or 10 s are over and it is killed, perhaps
\* just after it wrote helper-ready.
HelperIsNot ==
  /\ worker = "polling"
  /\ helper' = "gone" /\ WorkerFails

Worker == Found \/ Prepare \/ HandOff \/ Launch \/ HelperIsReady \/ HelperIsNot

-----------------------------------------------------------------------------
(* The helper: run_helper *)

Ends == helper' = "gone"

\* load_plan finds the plan in a staging directory inside the installation.
LoadPlan == stage

\* load_plan, the lock, a handle on the app, and helper-ready.
Announce ==
  /\ helper = "starting"
  /\ \/ app = "running" /\ LoadPlan /\ helper' = "waiting" /\ ready' = TRUE
     \/ Ends /\ UNCHANGED ready
  /\ UNCHANGED <<appVars, at, mode, clean, child, tree, stage, restarted, finished,
                 outcome>>

\* parent.wait that takes its time limit for an exit
AwaitAppHasty ==
  /\ helper = "waiting" /\ helper' = "opening"
  /\ UNCHANGED <<appVars, at, mode, clean, child, tree, stage, marks>>

\* parent.wait: the app has exited, or has not within 120 s.
AwaitApp ==
  /\ helper = "waiting"
  /\ IF app = "gone" THEN helper' = "opening" ELSE Ends
  /\ UNCHANGED <<appVars, at, mode, clean, child, tree, stage, marks>>

\* verify_files compares every file of the package with the plan, and nothing
\* else is there.
Verified == \A e \in Entries : pkg[e] = "new"

\* Transaction::new: verify the package again and make the backup directory.
Open ==
  /\ helper = "opening"
  /\ \/ Verified /\ helper' = "backup" /\ at' = 1
     \/ helper' = "unopened" /\ UNCHANGED at
  /\ UNCHANGED <<appVars, mode, clean, child, tree, stage, marks>>

\* The first error sends apply to rollback, which starts at the last entry.
Fail == helper' = "rollback" /\ at' = Len(Order) /\ clean' = TRUE

\* apply: move an installed entry to the backup.
BackUp ==
  /\ helper = "backup"
  /\ LET e == Order[at]
     IN \/ /\ helper' = "replace" /\ UNCHANGED <<at, clean>>
           /\ IF inst[e] = "none" THEN UNCHANGED <<inst, bak>>
              ELSE /\ bak' = [bak EXCEPT ![e] = inst[e]]
                   /\ inst' = [inst EXCEPT ![e] = "none"]
        \/ inst[e] # "none" /\ Fail /\ UNCHANGED <<inst, bak>>
  /\ UNCHANGED <<appVars, mode, child, pkg, stage, marks>>

\* going on after the last entry
ReplacePastEnd ==
  /\ helper = "replace"
  /\ inst' = [inst EXCEPT ![Order[at]] = pkg[Order[at]]]
  /\ pkg' = [pkg EXCEPT ![Order[at]] = "none"]
  /\ helper' = "backup" /\ at' = at + 1
  /\ UNCHANGED <<appVars, mode, clean, child, bak, stage, marks>>

\* apply: move the new entry to its place.
Replace ==
  /\ helper = "replace"
  /\ LET e == Order[at]
     IN \/ /\ pkg[e] # "none" /\ inst' = [inst EXCEPT ![e] = pkg[e]]
           /\ pkg' = [pkg EXCEPT ![e] = "none"]
           /\ IF at = Len(Order)
                THEN helper' = "replaced" /\ UNCHANGED at
                ELSE helper' = "backup" /\ at' = at + 1
           /\ UNCHANGED clean
        \/ Fail /\ UNCHANGED <<inst, pkg>>
  /\ UNCHANGED <<appVars, mode, child, bak, stage, marks>>

\* outcome.json, before the app is started.
WriteOutcome(from, what, m) ==
  /\ helper = from /\ outcome' = what /\ mode' = m /\ helper' = "restart"
  /\ UNCHANGED <<at, clean, restarted>>

\* After apply: the update is recorded, or undone.
Replaced ==
  /\ \/ WriteOutcome("replaced", "updated", "updated")
     \/ helper = "replaced" /\ Fail /\ UNCHANGED <<mode, outcome, restarted>>
  /\ UNCHANGED <<appVars, child, tree, stage, ready, finished>>

\* Transaction::new failed: nothing was touched.
Unopened ==
  /\ \/ WriteOutcome("unopened", "kept", "unopened")
     \/ helper = "unopened" /\ Ends /\ UNCHANGED <<at, clean, mode, outcome, restarted>>
  /\ UNCHANGED <<appVars, child, tree, stage, ready, finished>>

\* An error once the app has been started, or could not be: the update is
\* undone, anything else cannot be helped.
RestartFailed ==
  IF mode = "updated" THEN Fail ELSE Ends /\ UNCHANGED <<at, clean>>

\* restart
Restart ==
  /\ helper = "restart"
  /\ \/ /\ inst[Exe] # "none"
        /\ child' = [st |-> "starting", ver |-> inst[Exe], acked |-> FALSE]
        /\ helper' = "await" /\ UNCHANGED <<at, clean>>
     \/ RestartFailed /\ UNCHANGED child
  /\ UNCHANGED <<appVars, mode, tree, stage, marks>>

\* no time limit, and nobody looks whether the process is still there
AwaitStartForever ==
  /\ helper = "await" /\ restarted /\ helper' = "finishing"
  /\ UNCHANGED <<appVars, at, mode, clean, child, tree, stage, marks>>

\* await_start, one look at the marker: there, or the last look before the
\* time limit or the end of the process is noticed.
AwaitStart ==
  /\ helper = "await"
  /\ helper' = IF restarted THEN "finishing" ELSE "giveup"
  /\ UNCHANGED <<appVars, at, mode, clean, child, tree, stage, marks>>

\* await_start: kill what was started, which may have acknowledged meanwhile.
GiveUp ==
  /\ helper = "giveup"
  /\ child' = [child EXCEPT !.st = "gone"]
  /\ RestartFailed
  /\ UNCHANGED <<appVars, mode, tree, stage, marks>>

\* rollback of an entry that succeeds: put the old one back, or remove a new
\* one that replaced nothing.
Restore(e) ==
  \/ bak[e] = "old" /\ inst' = [inst EXCEPT ![e] = "old"] /\ bak' = [bak EXCEPT ![e] = "none"]
  \/ bak[e] = "none" /\ pkg[e] = "none" /\ inst' = [inst EXCEPT ![e] = "none"] /\ UNCHANGED bak
  \/ bak[e] = "none" /\ pkg[e] = "new" /\ UNCHANGED <<inst, bak>>

\* rollback of an entry that fails, before or after the new one is removed.
RestoreFails(e) ==
  /\ bak[e] = "old" \/ pkg[e] = "none"
  /\ inst' \in {inst, [inst EXCEPT ![e] = "none"]}
  /\ UNCHANGED bak

\* rollback: every entry is tried, from the last to the first.
RollBack ==
  /\ helper = "rollback"
  /\ IF at = 0
       THEN helper' = (IF clean THEN "restored" ELSE "gone") /\ UNCHANGED <<at, clean, inst, bak>>
       ELSE /\ at' = at - 1
            /\ \/ Restore(Order[at]) /\ UNCHANGED clean
               \/ RestoreFails(Order[at]) /\ clean' = FALSE
            /\ UNCHANGED helper
  /\ UNCHANGED <<appVars, mode, child, pkg, stage, marks>>

\* after rollback, leaving restarted where it is
RestoredKeepsMark ==
  /\ \/ WriteOutcome("restored", "kept", "restored")
     \/ helper = "restored" /\ Ends /\ UNCHANGED <<at, clean, mode, outcome, restarted>>
  /\ UNCHANGED <<appVars, child, tree, stage, ready, finished>>

\* After rollback: forget an acknowledgement of the new app, record, restart.
Restored ==
  /\ helper = "restored" /\ restarted' = FALSE
  /\ \/ outcome' = "kept" /\ mode' = "restored" /\ helper' = "restart"
     \/ Ends /\ UNCHANGED <<mode, outcome>>
  /\ UNCHANGED <<appVars, at, clean, child, tree, stage, ready, finished>>

Finish ==
  /\ helper = "finishing" /\ Ends
  /\ finished' \in BOOLEAN
  /\ UNCHANGED <<appVars, at, mode, clean, child, tree, stage, ready, restarted,
                 outcome>>

\* Ended from outside.
HelperDies ==
  /\ helper \notin {"none", "gone"} /\ Ends
  /\ UNCHANGED <<appVars, at, mode, clean, child, tree, stage, marks>>

Helper ==
  \/ Announce \/ AwaitApp \/ Open \/ BackUp \/ Replace \/ Replaced \/ Unopened
  \/ Restart \/ AwaitStart \/ GiveUp \/ RollBack \/ Restored \/ Finish

-----------------------------------------------------------------------------
(* The app the helper started: finish_restart, then its cleanup thread *)

\* It acknowledges only if it is what the outcome says, and while the helper
\* whose end it will wait for is there.
Acknowledge ==
  /\ child.st = "starting"
  /\ \/ /\ outcome # "none" /\ (outcome = "updated" => child.ver = "new")
        /\ helper # "gone"
        /\ child' = [child EXCEPT !.st = "acked", !.acked = TRUE]
        /\ restarted' = TRUE
     \/ child' = [child EXCEPT !.st = "unconfirmed"] /\ UNCHANGED restarted
  /\ UNCHANGED <<appVars, helperVars, tree, stage, ready, finished, outcome>>

ChildEnds ==
  /\ child.st \in {"starting", "acked", "unconfirmed"}
  /\ child' = [child EXCEPT !.st = "gone"]
  /\ UNCHANGED <<appVars, helperVars, tree, stage, marks>>

\* deleting the staging directory right after the acknowledgement
CleanUpEarly ==
  /\ child.st = "acked" /\ stage
  /\ RemoveStage
  /\ UNCHANGED <<appVars, helperVars, child, inst>>

\* The staging directory is deleted when the helper has ended as it should.
CleanUp ==
  /\ child.st = "acked" /\ helper = "gone" /\ finished /\ stage
  /\ RemoveStage
  /\ UNCHANGED <<appVars, helperVars, child, inst>>

Child == Acknowledge \/ CleanUp

Next == Publish \/ Tamper \/ Check \/ Download \/ Cancel \/ Quit \/ Worker \/ Helper \/ HelperDies \/ Child \/ ChildEnds

Spec == Init /\ [][Next]_vars

\* Every wait has a time limit, so each thread that runs gets on.
FairSpec ==
  /\ Spec
  /\ WF_vars(Worker) /\ WF_vars(Helper) /\ WF_vars(Child)
  /\ WF_vars(exit /\ Quit)

-----------------------------------------------------------------------------
(* Safety *)

Updated  == inst = [e \in Entries |-> "new"]
Unharmed == inst = Original

\* The previous version can be put together again at every moment, hence after
\* a power failure at any moment: each of its entries is in its place or in the
\* backup, until the update is complete; and without the staging directory the
\* installation is whole, so that backups are deleted only when nobody needs
\* them.
NothingLost ==
  /\ Updated \/ \A e \in Installed : inst[e] = "old" \/ bak[e] = "old"
  /\ ~stage => Updated \/ Unharmed

\* A helper that finished left one version, whole, and recorded which, and the
\* app it started last has acknowledged, not an earlier one that it gave up and
\* killed; and the app that acknowledged shows the outcome of the version it is.
AllOrNothing ==
  /\ finished => \/ outcome = "updated" /\ Updated
                 \/ outcome = "kept" /\ Unharmed
  /\ finished => child.acked
  /\ child.st = "acked" /\ stage => (outcome = "updated") = (child.ver = "new")

\* What is installed is a newer version than the one that runs, the one that was
\* offered, and is what the checksum is of, whatever the site replaced and other
\* programs touched in between.
OnlyVerified ==
  (\E e \in Entries : inst[e] \notin {"old", "none"}) =>
    /\ \A e \in Entries : inst[e] # "bad"
    /\ body = expected /\ body.sound
    /\ body.version = release.version /\ release.version > Current

\* A download that was cancelled before the handover installs nothing.
CancelHonoured == cancelled => helper \in {"none", "gone"} /\ ~exit

\* No installed entry changes while the app that is updated still runs.
AppHasExited == [][inst' # inst => app = "gone"]_vars

-----------------------------------------------------------------------------
(* Liveness *)

\* The app that says it is busy with an update does not stay so: it finds out,
\* or exits, or says that the update failed.
RestartDecided == Busy ~> (app = "gone" \/ ~Busy)

\* The helper comes to an end whatever fails, and does not wait for ever for
\* the app, the new app or itself.
HelperEnds == helper # "none" ~> (helper = "gone" \/ helper = "none")

\* Neither side of an update waits for the other for ever.
UpdateSettles == RestartDecided /\ HelperEnds
=============================================================================
