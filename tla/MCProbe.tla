------------------------------- MODULE MCProbe -------------------------------
(* Constants for checking Probe on small instances.                         *)
EXTENDS Probe

CONSTANTS o1, o2, p1

HeadAnswer(status, length) == [status |-> status, length |-> length]
GetAnswer(status, total) == [status |-> status, total |-> total]

\* Every kind of answer the code tells apart; Content-Length may be that of
\* another page (7) or negative, and hosts may change their mind between two requests.
AnyHead == {HeadAnswer(404, Absent), HeadAnswer(200, Absent),
            HeadAnswer(200, 5), HeadAnswer(200, 7), HeadAnswer(200, -1),
            HeadAnswer(200, Garbled)}
AnyGet == {GetAnswer(206, 5), GetAnswer(206, Absent), GetAnswer(200, Absent),
           GetAnswer(503, Absent)}
===============================================================================
