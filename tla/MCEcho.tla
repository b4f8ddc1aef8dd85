------------------------------- MODULE MCEcho -------------------------------
(* Instances of Echo for TLC. *)
EXTENDS Echo

Types == {"Request", "Response", "Notice"}
Pool  == {"Request", "Response"}
Names == [t \in Types |-> CASE t = "Request" -> <<82, 101, 113>>
                            [] t = "Response" -> <<82, 115, 112>>
                            [] t = "Notice" -> <<78, 111, 116>>]
MaxLen == 64 * 1024 * 1024

Greeted == {<<"Request">>, <<"Request", "Request">>, <<"Response">>, <<"Notice">>}
=============================================================================
