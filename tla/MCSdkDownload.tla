--------------------------- MODULE MCSdkDownload ---------------------------
(* Small instances of the download: files of up to three ranges. *)
EXTENDS SdkDownload

SomeLengths == 0 .. 5
FewLengths == 1 .. 3
=============================================================================
