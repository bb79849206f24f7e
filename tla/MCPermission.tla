---------------------------- MODULE MCPermission ----------------------------
EXTENDS Permission

(* The flags permission_test.go renders, both access modes included *)
DocumentedFlags == {O_WRONLY, O_RDWR, O_APPEND, O_CREATE, O_EXCL, O_SYNC, O_TRUNC}
=============================================================================
