---------------------------- MODULE MCAsyncWrite ----------------------------
(* Model values for AsyncWrite: a primary with two backups, one async     *)
(* write of two chunks followed by a sync write of the same path.          *)
EXTENDS AsyncWrite

CONSTANTS P, B1, B2

MCBackups == {B1, B2}
MCMode == <<"async", "sync", "async">>
=============================================================================
