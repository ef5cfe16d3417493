----------------------------- MODULE MCEditLock -----------------------------
(* Instances of EditLock and EditLockCalm for TLC. *)
EXTENDS EditLockCalm, TLC

CONSTANTS o1, o2, \* two devices of the owner
          e,      \* a device of an account with the edit mode
          v       \* a device of an account with the view mode

MCRole == [d \in Device |-> CASE d \in {o1, o2} -> "owner" [] d = e -> "edit" [] OTHER -> "view"]
=============================================================================
