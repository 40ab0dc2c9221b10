------------------------------ MODULE NetModes ------------------------------
(***************************************************************************)
(* What the encoder and the CNN agree on (Fast_Tool.hpp of EncoderApp and  *)
(* of net_lib_v2): the CU sizes the network knows, how many values it      *)
(* returns for each, and which split each value stands for.  The names are *)
(* those of MY_Split_Mode.                                                 *)
(***************************************************************************)
EXTENDS Integers, Sequences, FiniteSets

NetSplits == {"QT", "VER_2", "HOR_2", "VER_3", "HOR_3"}
NetAlternatives == NetSplits \cup {"NO"}

\* cu_size_list: the sizes in the order of Size_Index (size_id is the place
\* in this list less one), the number of values the encoder sorts ...
cu_size_list == << <<128, 128>>, <<64, 128>>, <<128, 64>>, <<64, 64>>, <<64, 32>>,
                   <<32, 64>>, <<16, 64>>, <<64, 16>>, <<32, 32>>, <<32, 16>>,
                   <<16, 32>>, <<32, 8>>, <<8, 32>>, <<16, 16>> >>
SizeIds == 1 .. Len(cu_size_list)
Square == {4, 9, 14}

Sorted(id) == CASE id = 1 -> 4
                [] id \in {2, 3} -> 2
                [] id \in Square -> 6
                [] id \in {12, 13} -> 4
                [] OTHER -> 5

\* mutant: the library's 32x8 and 8x32 networks lack the last value
WrittenShort(id) == CASE id \in {1, 2, 3} -> 2
                      [] id \in Square -> 6
                      [] id \in {12, 13} -> 3
                      [] OTHER -> 5
\* ... and the number the library's network writes: two, not four, at 128x128
Written(id) == CASE id \in {1, 2, 3} -> 2
                 [] id \in Square -> 6
                 [] id \in {12, 13} -> 4
                 [] OTHER -> 5

Known(w, h) == \E id \in SizeIds : cu_size_list[id] = <<w, h>>

\* an unknown size gets the answer of 128x128
Size_Index(w, h) ==
  IF Known(w, h) THEN CHOOSE id \in SizeIds : cu_size_list[id] = <<w, h>> ELSE 1

Is_Tgt_Size(w, h) ==
  \/ w >= 16 /\ h >= 16
  \/ <<w, h>> \in { <<32, 8>>, <<8, 32>> }

\* mutant: the two ternary splits of the 32x8 and 8x32 networks are swapped
AlternativesSwapped(id) ==
  CASE id = 1 -> <<"QT", "VER_2", "HOR_2", "NO">>
    [] id \in Square -> <<"QT", "VER_2", "HOR_2", "VER_3", "HOR_3", "NO">>
    [] id = 12 -> <<"VER_2", "HOR_2", "HOR_3", "NO">>
    [] id = 13 -> <<"VER_2", "HOR_2", "VER_3", "NO">>
    [] OTHER -> <<"VER_2", "HOR_2", "VER_3", "HOR_3", "NO">>
\* Net_Id_to_VTM_Mode_Id: what the values stand for, in their order.  The two
\* 128x64 networks only say whether to split at all.
Alternatives(id) ==
  CASE id = 1 -> <<"QT", "VER_2", "HOR_2", "NO">>
    [] id \in Square -> <<"QT", "VER_2", "HOR_2", "VER_3", "HOR_3", "NO">>
    [] id = 12 -> <<"VER_2", "HOR_2", "VER_3", "NO">>
    [] id = 13 -> <<"VER_2", "HOR_2", "HOR_3", "NO">>
    [] OTHER -> <<"VER_2", "HOR_2", "VER_3", "HOR_3", "NO">>

\* Run has top_n = 2 at every temporal level: the places of the two best values
top_n == 2
Places(id) == {p \in (1 .. Sorted(id)) \X (1 .. Sorted(id)) : p[1] # p[2]}

mode_permit(id, best) ==
  IF id \in {2, 3} THEN IF best[1] = 1 THEN NetSplits ELSE {"NO"}
  ELSE {Alternatives(id)[best[i]] : i \in 1 .. top_n}

\* all a network may answer for a size
Answers(id) == {mode_permit(id, best) : best \in Places(id)}

Get_External_Mode(mode) ==
  CASE mode = "SPLIT_QT" -> "QT"
    [] mode = "SPLIT_BT_H" -> "HOR_2"
    [] mode = "SPLIT_BT_V" -> "VER_2"
    [] mode = "SPLIT_TT_H" -> "HOR_3"
    [] mode = "SPLIT_TT_V" -> "VER_3"
    [] OTHER -> "NO"
=============================================================================
