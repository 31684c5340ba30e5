------------------------------- MODULE MCMail -------------------------------
(* A small instance of the mail side.                                      *)
EXTENDS Mail

(* One message has all the attachments.                                    *)
MCPartsOf == [m \in Messages |-> Parts]
=============================================================================
