------------------------------ MODULE MCCabac ------------------------------
EXTENDS Cabac

S(kind, arg, val) == [kind |-> kind, arg |-> arg, val |-> val]

\* a context that expects 0, an undecided one and one that expects 1
MCInistate == <<3, 64, 127>>
MCWindowSize == <<0, 5, 13>>

\* single bins, and the terminating bin not set
BinSymbols ==
  {S("ctx", <<c>>, b) : c \in {1, 2}, b \in Bit} \cup {S("ep", << >>, 1), S("trm", << >>, 0)}

\* equiprobable bins that make runs of 0xff and carries into them
RunSymbols ==
  {S("eps", <<8>>, v) : v \in {0, 127, 255}} \cup {S("eps", <<17>>, 131071), S("eps", <<10>>, 513)}
  \cup {S("ctx", <<c>>, b) : c \in {2, 3}, b \in Bit}

\* remaining levels and vector differences around the ends of their codes
RemSymbols ==
  {S("rem", <<r, 5, 15>>, v) : r \in 0 .. 3,
     v \in {0, 4, 5, 6, 9, 10, 39, 40, 41, 4098, 4099, 4100, 8202, 8203, 32767}}
  \cup {S("rem", <<1, 0, 17>>, v) : v \in {0, 1, 2, 65533, 65534, 131070}}
  \cup {S("ctx", <<1>>, b) : b \in Bit}

MCAlphabets == {BinSymbols, RunSymbols, RemSymbols}
MCMaxSymbols == [a \in MCAlphabets |-> IF a = BinSymbols THEN 6 ELSE IF a = RunSymbols THEN 5 ELSE 2]
=============================================================================
