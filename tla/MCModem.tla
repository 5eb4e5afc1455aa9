------------------------------ MODULE MCModem -------------------------------
EXTENDS Modem, TLC

MCActors == {Run, Worker}
MCNames == ModemNames

\* The commands that may run into their deadline, each with the wrong answers
\* its caller tells apart: what a drain is answered is not looked at.
MCWrong == "" :> {} @@ "+CMGS" :> {"bad", "error"} @@ "+CPIN" :> {"bad"} @@ "+CNUM" :> {"bad"}
=============================================================================
