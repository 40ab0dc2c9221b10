------------------------------ MODULE FastTool ------------------------------
(***************************************************************************)
(* One call of the encoder's Fast_Tool::Get_Mode.  The library writes its  *)
(* values into result_buf, which lives as long as the object; the encoder  *)
(* sorts the first values and permits what the two best stand for.         *)
(* Between calls the buffer keeps what earlier calls, for other sizes,     *)
(* left in it, and new float[6] what the memory held: a call finds any     *)
(* buffer.                                                                 *)
(*                                                                         *)
(* How the network computes its values is external.  Get_Level, which      *)
(* throws at a POC that is a multiple of 32, is not called for such a      *)
(* picture: with the intra period of 32 in the run configuration these are *)
(* intra pictures.  The call statistics are left out.                      *)
(***************************************************************************)
EXTENDS NetModes

CONSTANT Values   \* what the network may write, 0 among it

Cells == 1 .. 6
Buffers == [Cells -> Values]
Outputs(id) == [1 .. Written(id) -> Values]

\* the library writes as many values as its network has
Net_Run(id, out, buf) == [i \in Cells |-> IF i <= Written(id) THEN out[i] ELSE buf[i]]

\* Sort_Index: the two greatest of the first values, in some order when equal
Best(buf, id) ==
  {p \in Places(id) :
     /\ buf[p[1]] >= buf[p[2]]
     /\ \A i \in 1 .. Sorted(id) : i \notin {p[1], p[2]} => buf[p[2]] >= buf[i]}

\* what the call may answer when it finds result_buf as buf
Get_Mode(id, out, buf) == {mode_permit(id, best) : best \in Best(Net_Run(id, out, buf), id)}

\* The answer is a matter of this call's values: whatever was in the buffer, it
\* is the one an empty buffer leads to.
Empty == [i \in Cells |-> 0]
DecidedByOutputs(id) ==
  \A out \in Outputs(id), buf \in Buffers : Get_Mode(id, out, buf) = Get_Mode(id, out, Empty)
=============================================================================
