------------------------------ MODULE MCUserForm ------------------------------
(***************************************************************************)
(* The form of user-form-dialog.tsx: its schema asks for a password of at  *)
(* least 8 characters, which the form shows for a new user only, and which *)
(* no user that the server lists has.                                      *)
(***************************************************************************)
EXTENDS RecordForm

MCFields == {"email", "password"}
MCPassword == {"password"}

=============================================================================
