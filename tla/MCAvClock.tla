----------------------------- MODULE MCAvClock -----------------------------
EXTENDS AvClock

(* One of the API level whose heads are doubted at zero, one that states a *)
(* latency that is not taken.                                              *)
MCDevices == {[sdk |-> 29, latency |-> 1], [sdk |-> 30, latency |-> 2]}

(* True; as far ahead and as far behind as is accepted; not accepted.      *)
MCErrors == {[frames |-> 0, age |-> 0], [frames |-> 2, age |-> 1],
             [frames |-> -2, age |-> -1], [frames |-> 4, age |-> 2]}
=============================================================================
