---------------------------- MODULE MCUDPService ----------------------------
(* A source whose messages meet each other in the table, one of them not   *)
(* decodable; two sources that share the cleaners; and a source of version *)
(* 1 whose second message tells no length.                                 *)
EXTENDS UDPService

CONSTANTS s1, s2

Good == [size |-> 2, ok |-> TRUE]
Bad == [size |-> 3, ok |-> FALSE]
Case(version1, messages1, messages2) ==
  [s \in Sources |-> IF s = s1 THEN [version |-> version1, messages |-> messages1]
                    ELSE [version |-> 2, messages |-> messages2]]

MCCases ==
  {Case(2, <<Good, Bad>>, <<>>),
   Case(2, <<Good, Good>>, <<>>),
   Case(2, <<Good>>, <<Bad>>),
   Case(1, <<Good, Bad>>, <<Good>>)}
=============================================================================
