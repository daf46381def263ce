------------------------------- MODULE MCCodec ------------------------------
(***************************************************************************)
(* Messages of bytes with four values, so that a body of sixteen is too    *)
(* long, and texts of bytes with 256.                                      *)
(***************************************************************************)
EXTENDS Codec

Points == {<<s, x, x + 1>> : s \in {2, 3}, x \in 0 .. 2}

Streams ==
    [x \in (SUBSET Key) \X Iv |->
        (SumFunction(x[2]) + SumSet({SumFunction(k) : k \in x[1]})) % ByteMod]

(* The sequences have no two bytes alike, or all of them zero.             *)
States ==
    [kind : {"state"}, id : {<<2, 1, 2>>}, sequence : {0, 27}, ecdhPublic : {<<3>>},
     neighbors : {S \in SUBSET Points : Cardinality(S) \in {0, 1, 2, 4, 5}}]

Descriptions ==
    [kind : {"strings"}, id : {<<2, 1, 2>>}, other : {<<3, 0, 1>>}, sequence : {27},
     key : {<<1>>}, otherKey : {<<2>>}, iv : {<<0>>, <<3>>},
     strings : {<<s, t>> : s \in SeqOf({1, 3}, 2), t \in SeqOf({1, 2}, 1)}
               \cup {<< <<1>>, [k \in 1 .. n |-> 2]>> : n \in {8, 9}}]

(* Bytes whose base64 has the characters in which the two tables differ,   *)
(* and an identifier's worth of bytes.                                     *)
Bytes == SeqOf({0, 105, 251, 255}, 4)
Identifiers == {[k \in 1 .. 33 |-> (k * m) % 256] : m \in {7, 100}}

Encoded ==
    [kind : {"base64"}, bytes : Bytes \cup Identifiers, url : BOOLEAN, padding : BOOLEAN]
      \cup [kind : {"hex"}, bytes : Bytes]

(* Texts of an A, a dash, a padding, a space and an exclamation mark.      *)
Texts == [kind : {"text"}, text : SeqOf({65, 45, 61, 32, 33}, 5)]

AllInputs == States \cup Descriptions \cup Encoded \cup Texts

=============================================================================
