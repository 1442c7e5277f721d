--------------------------- MODULE MCFileTransfer ---------------------------
(* Instances of FileTransfer for TLC; the other constants are in the cfgs. *)
EXTENDS FileTransfer

\* What the user asks for, in order.
DownloadUpload == <<"download", "upload">>
Downloads      == <<"download", "download">>
Uploads        == <<"upload", "upload">>
=============================================================================
