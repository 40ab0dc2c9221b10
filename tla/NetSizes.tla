------------------------------ MODULE NetSizes ------------------------------
(***************************************************************************)
(* The CNN's table of sizes against the sizes the partitioner produces:    *)
(* EncCu asks the network about every inter CU for which Is_Tgt_Size holds *)
(* and never looks at what Size_Index made of it, so that the table and    *)
(* the split rules of QTBTPartitioner have to fit.                         *)
(***************************************************************************)
EXTENDS UnitPartitioner

CONSTANT Values   \* the network's values: they are compared, and nothing else

ASSUME ValuesAssumption == Values \subseteq Int /\ 0 \in Values

Net == INSTANCE FastTool

\* the test mode of a split, as Get_External_Mode sees it
TestModeOf(s) == CASE s = Quad -> "SPLIT_QT"
                   [] s = Horz -> "SPLIT_BT_H"
                   [] s = Vert -> "SPLIT_BT_V"
                   [] s = TriH -> "SPLIT_TT_H"
                   [] s = TriV -> "SPLIT_TT_V"

\* the walk stands at a CU for which xCompressCU asks the network
AtTarget ==
  at = "cu" /\ ~cfg.intra /\ ImplicitSplit = NoSplit /\ Net!Is_Tgt_Size(Area.w, Area.h)

\* Where the network decides, it knows the CU's size and can decide for every
\* split the partitioner permits.  Size_Index returns 0, the 128x128 network, for
\* a size it does not know: the split rules never produce such a CU, for no part
\* of a 128-sample block is thinner than 64, and a part with a side of 8 that is
\* a target is 32 long.  A split without a value of the network's own could
\* never be tested (EncCu::xCompressCU skips what mode_permit does not name).
NetworkCoversTheCu ==
  AtTarget =>
    /\ Net!Known(Area.w, Area.h)
    /\ \A s \in Permitted \ {NoSplit} :
         \E permit \in Net!Answers(Net!Size_Index(Area.w, Area.h)) :
           Net!Get_External_Mode(TestModeOf(s)) \in permit

\* At every target size but 128x128 the decision compares only values that the
\* network wrote in this very call: nothing an earlier CU of another size left
\* in the buffer can permit or forbid a split (Fast_Tool::Run sorts result_buf
\* by the encoder's own cu_size_list, the library writes by its).  At 128x128
\* the lists differ (4 against 2) and the claim is false.
IndependentSizes == {id \in Net!SizeIds : Net!DecidedByOutputs(id)}
DecidedByThisCall ==
  AtTarget /\ <<Area.w, Area.h>> # <<128, 128>> => Net!Size_Index(Area.w, Area.h) \in IndependentSizes
=============================================================================
