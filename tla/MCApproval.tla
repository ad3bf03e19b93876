----------------------------- MODULE MCApproval -----------------------------
(***************************************************************************)
(* One authenticator of each sort but TOTP, of which there are two.  With   *)
(* three codes in all, a code comes back within a window and collides with  *)
(* one of the other secret.                                                 *)
(***************************************************************************)
EXTENDS Approval

SortOf == [key |-> "sshsig", stick |-> "fido2", phone |-> "totp", fob |-> "totp",
           word |-> "password"]
Codes == [phone |-> [c \in 0 .. 5 |-> <<"x", "y", "z", "z", "x", "x">>[c + 1]],
          fob |-> [c \in 0 .. 5 |-> <<"z", "x", "z", "x", "y", "x">>[c + 1]]]
Symmetry == Permutations(Threads)
Words == [word |-> "secret"]
Secrets == <<"fob", "phone">>
Hashes == <<"word">>
Two == {s \in SUBSET DOMAIN SortOf : Cardinality(s) >= 2}
=============================================================================
