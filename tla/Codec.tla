-------------------------------- MODULE Codec -------------------------------
(***************************************************************************)
(* What a node writes and another reads: the messages of message.cpp and   *)
(* state.cpp, with the encrypted payload of transport.cpp and the strings  *)
(* of peering.cpp in it, and the texts of binary.cpp (an identifier is     *)
(* printed as base64 and given to connect as such).                        *)
(*                                                                         *)
(* A behaviour takes one input through its encoding, perhaps a damage on   *)
(* its way, and its decoding.  The sizes of keys and identifiers and the   *)
(* values of a byte are parameters.  The curves and ciphers of Crypto++    *)
(* are replaced by what the code asks of them: a binary that starts with a *)
(* signature verifies for what was signed with the key and nothing else,   *)
(* and the two keys of an exchange agree on a key stream.                  *)
(***************************************************************************)
EXTENDS Binary, FiniteSetsExt

CONSTANTS
    IdSize,         \* Identifier::Size, 33 in the code
    KeySize,        \* Ecdh::KeySize, 65
    IvSize,         \* of the AES initialization vector, 16
    TagSize,        \* GCM_TAG_SIZE, 16
    Ids,            \* the identifiers: binaries that are points of the curve
    Agreed,         \* the key stream that two keys agree on, for a vector
    Inputs          \* what is encoded or decoded

Key == [1 .. KeySize -> Byte]
Iv == [1 .. IvSize -> Byte]
String == Seq(Byte \ {0})

ASSUME CodecAssumption ==
    /\ IdSize \in Nat \ {0} /\ KeySize \in Nat /\ IvSize \in Nat /\ TagSize \in Nat
    /\ Ids \subseteq [1 .. IdSize -> Byte] /\ IsFiniteSet(Ids)
    /\ Agreed \in [(SUBSET Key) \X Iv -> Byte]

(* A State to be announced, the two strings of a description, binaries to  *)
(* print and texts to read.                                                *)
Input ==
    [kind : {"state"}, id : Ids, sequence : 0 .. LongMod - 1,
     ecdhPublic : Key, neighbors : SUBSET Ids] \cup
    [kind : {"strings"}, id : Ids, other : Ids, sequence : 0 .. LongMod - 1,
     key : Key, otherKey : Key, iv : Iv, strings : String \X String] \cup
    [kind : {"hex"}, bytes : Seq(0 .. 255)] \cup
    [kind : {"base64"}, bytes : Seq(0 .. 255), url : BOOLEAN, padding : BOOLEAN] \cup
    [kind : {"text"}, text : Seq(0 .. 255)]

ASSUME InputsAssumption == Inputs \subseteq Input

VARIABLES
    pc,             \* the next step
    input,          \* a member of Inputs
    wire,           \* the binary or the text that is sent
    signed,         \* the source and the binary that it signed
    damaged,        \* the binary was changed on its way
    scan,           \* the locals of from_base64_impl
    result          \* what the reader gets

vars == <<pc, input, wire, signed, damaged, scan, result>>

-----------------------------------------------------------------------------
(* Messages.                                                               *)

HeaderSize == 8
NoId == << >>       \* no source, or no destination
MaxLength == ShortMod - 1

(* Message::Type: the types that are used here, in the range of Byte.      *)
StateType == 2
SignalingType == 3

(* All the bytes of the signature are one element, which is not a byte.    *)
Signature == ByteMod

TooLong(message) == Len(message.body) > MaxLength

flags(message) ==
    (IF message.source # NoId THEN 1 ELSE 0) + (IF message.destination # NoId THEN 2 ELSE 0)

(* Message::operator binary, of a message that is not too long; and one    *)
(* that writes the destination first.                                      *)
toBinarySwapped(message) ==
    <<message.type, flags(message)>>
      \o htons(Len(message.body)) \o htonl(message.sequence)
      \o message.destination \o message.source \o message.body \o message.signature

toBinary(message) ==
    <<message.type, flags(message)>>
      \o htons(Len(message.body)) \o htonl(message.sequence)
      \o message.source \o message.destination \o message.body \o message.signature

(* Message::Create up to the signature: sign sets the source and signs the *)
(* binary of the message without signature.                                *)
Create(type, sequence, body, source, destination) ==
    [type |-> type, sequence |-> sequence, source |-> source,
     destination |-> destination, body |-> body, signature |-> << >>]

(* The constructor of EcdsaPublic throws for anything but a point.         *)
IsPoint(bin) == bin \in Ids

(* EcdsaPublic::verify.  VerifyMessage of Crypto++ takes the two numbers   *)
(* of a signature from the start of what it is given, and does not look at *)
(* bytes that follow.  verifyIfSigned takes a message without signature    *)
(* for one that need not have any.                                         *)
StartsWithSignature(bin) == bin # << >> /\ bin[1] = Signature

verifyIfSigned(source, part, signature) ==
    signature # << >> =>
      StartsWithSignature(signature) /\ signed = [source |-> source, part |-> part]

verify(source, part, signature) ==
    StartsWithSignature(signature) /\ signed = [source |-> source, part |-> part]

(* Message::Message(bin).                                                  *)
fromBinary(bin) ==
    LET r == Read(binary_reader(bin), HeaderSize)
        hasSource == bin[2] % 2 = 1
        hasDestination == (bin[2] \div 2) % 2 = 1
        length == ntohs(SubSeq(bin, 3, 4))
        s == IF hasSource THEN Read(r, IdSize) ELSE r
        d == IF hasDestination THEN Read(s, IdSize) ELSE s
        b == Read(d, length)
        message == [type |-> bin[1],
                    sequence |-> ntohl(SubSeq(bin, 5, 8)),
                    source |-> IF hasSource THEN Taken(s, IdSize) ELSE NoId,
                    destination |-> IF hasDestination THEN Taken(d, IdSize) ELSE NoId,
                    body |-> Taken(b, length),
                    signature |-> left(b)]
    IN  IF /\ r.ok /\ b.ok
           /\ hasSource => IsPoint(message.source)
           /\ hasDestination => IsPoint(message.destination)
           /\ hasSource => verify(message.source, SubSeq(bin, 1, b.mPosition), message.signature)
        THEN message ELSE Failed

(* Routing::route, at the destination: a message without source throws.    *)
route(message) ==
    IF message = Failed \/ message.source = NoId THEN Failed ELSE message

-----------------------------------------------------------------------------
(* Bodies.                                                                 *)

(* State::toMessage: the ECDH key and the neighbours, in some order.       *)
StateBody(state) ==
    LET ids == SetToSeq(state.neighbors)
    IN  state.ecdhPublic \o
          [k \in 1 .. IdSize * Len(ids) |->
              ids[((k - 1) \div IdSize) + 1][((k - 1) % IdSize) + 1]]

(* State::FromMessage: identifiers while there are bytes enough for one;   *)
(* bytes that are left are only warned of.  A neighbour that is not a      *)
(* point of the curve throws.                                              *)
FromMessage(message) ==
    LET r == Read(binary_reader(message.body), KeySize)
        count == (Len(message.body) - KeySize) \div IdSize
        id(k) == SubSeq(left(r), IdSize * (k - 1) + 1, IdSize * k)
    IN  IF /\ message.type = StateType /\ message.source # NoId
           /\ r.ok /\ \A k \in 1 .. count : IsPoint(id(k))
        THEN [id |-> message.source, sequence |-> message.sequence,
              ecdhPublic |-> Taken(r, KeySize),
              neighbors |-> {id(k) : k \in 1 .. count}]
        ELSE Failed

(* Ecdh::agree and Sha256, with the vector: the key stream of an exchange, *)
(* the same from both ends.                                                *)
KeyStream(key, other, iv) == Agreed[<<{key, other}, iv>>]

(* AesGcmEncryption::encrypt: the cipher of the text, and the tag.         *)
encrypt(stream, cleartext) ==
    [k \in DOMAIN cleartext |-> (cleartext[k] + stream) % ByteMod]
      \o [k \in 1 .. TagSize |-> 0]

(* AesGcmDecryption::decrypt puts the cipher and the tag through a filter  *)
(* for encryption: all of it is decrypted, and a tag is appended.  So the  *)
(* text is followed by more bytes, of whatever value.                      *)
decrypted(stream, ciphertext, tail) ==
    [k \in 1 .. Len(ciphertext) - TagSize |->
        (ciphertext[k] + (ByteMod - 1) * stream) % ByteMod] \o tail

Tails == [1 .. 2 * TagSize -> Byte]

(* CipherBody::Encrypt, and operator binary.                               *)
CipherBody(key, destination, iv, cleartext) ==
    [source |-> key, destination |-> destination, iv |-> iv,
     ciphertext |-> encrypt(KeyStream(key, destination, iv), cleartext)]

CipherBinary(body) == body.source \o body.destination \o body.iv \o body.ciphertext

(* CipherBody(body), the test of the key in Transport::incoming, and       *)
(* decrypt.                                                                *)
Deciphered(message, key, tail) ==
    LET s == Read(binary_reader(message.body), KeySize)
        d == Read(s, KeySize)
        v == Read(d, IvSize)
        stream == KeyStream(Taken(s, KeySize), Taken(d, KeySize), Taken(v, IvSize))
    IN  IF v.ok /\ Taken(d, KeySize) = key
        THEN [payload |-> decrypted(stream, left(v), tail)] ELSE Failed

-----------------------------------------------------------------------------
IsMessage(x) == x.kind \in {"state", "strings"}
IsBase64Text(x) == x.kind \in {"base64", "text"}

(* The message before it is signed: State::toMessage, or pack_strings in   *)
(* Peering::sendDescription and Transport::send.                           *)
MessageOf(x) ==
    IF x.kind = "state"
    THEN Create(StateType, x.sequence, StateBody(x), x.id, NoId)
    ELSE Create(SignalingType, x.sequence,
                CipherBinary(CipherBody(x.key, x.otherKey, x.iv,
                                        pack_strings(x.strings))),
                x.id, x.other)

(* Message::Create as a whole, and operator binary.                        *)
Signed(message) == Append(toBinary(message), Signature)

NoScan == [i |-> 1, j |-> 0, group |-> <<0, 0, 0, 0>>, out |-> << >>]

Init ==
    /\ pc = "write"
    /\ input \in Inputs
    /\ wire = << >> /\ signed = Failed /\ damaged = FALSE
    /\ scan = NoScan /\ result = Failed

(* The sender: a body that is too long throws as it is signed.             *)
Write ==
    LET message == MessageOf(input)
    IN  /\ pc = "write" /\ IsMessage(input)
        /\ IF TooLong(message)
           THEN pc' = "done" /\ UNCHANGED <<wire, signed>>
           ELSE /\ wire' = Signed(message)
                /\ signed' = [source |-> message.source, part |-> toBinary(message)]
                /\ pc' = "read"
        /\ UNCHANGED <<input, damaged, scan, result>>

(* A binary is cut, extended or changed in one place on its way.           *)
Damage ==
    /\ pc = "read" /\ ~ damaged
    /\ damaged' = TRUE
    /\ \/ \E n \in 0 .. Len(wire) - 1 : wire' = SubSeq(wire, 1, n)
       \/ \E b \in Byte : wire' = Append(wire, b)
       \/ \E k \in DOMAIN wire, b \in Byte :
            wire[k] # b /\ wire' = [wire EXCEPT ![k] = b]
    /\ UNCHANGED <<pc, input, signed, scan, result>>

(* The receiver parses the binary and hands a message with a source on, as *)
(* events::Message.                                                        *)
Parse ==
    /\ pc = "read"
    /\ result' = route(fromBinary(wire))
    /\ pc' = IF result' = Failed THEN "done" ELSE "parsed"
    /\ UNCHANGED <<input, wire, signed, damaged, scan>>

(* Graph::notify, for a message of type State.                             *)
ParseState ==
    /\ pc = "parsed" /\ input.kind = "state"
    /\ result' = FromMessage(result)
    /\ pc' = "done"
    /\ UNCHANGED <<input, wire, signed, damaged, scan>>

(* Transport::notify and incoming, and the strings of Peering::receive.    *)
ParseStrings ==
    /\ pc = "parsed" /\ input.kind = "strings"
    /\ \E tail \in Tails :
         LET clear == IF /\ result.type = SignalingType /\ result.source # NoId
                         /\ result.destination # NoId
                      THEN Deciphered(result, input.otherKey, tail) ELSE Failed
         IN  result' = IF clear = Failed THEN Failed
                       ELSE [strings |-> unpack_strings(clear.payload)]
    /\ pc' = "done"
    /\ UNCHANGED <<input, wire, signed, damaged, scan>>

(* to_hex, and from_hex of what it made.                                   *)
Hex ==
    /\ pc = "write" /\ input.kind = "hex"
    /\ wire' = to_hex(input.bytes)
    /\ result' = from_hex(wire')
    /\ pc' = "done"
    /\ UNCHANGED <<input, signed, damaged, scan>>

(* to_base64 or to_base64url, or a text that comes from elsewhere.         *)
WriteText ==
    /\ pc = "write" /\ IsBase64Text(input)
    /\ wire' = IF input.kind = "text" THEN input.text
               ELSE to_base64(input.bytes, input.url, input.padding)
    /\ pc' = "outer"
    /\ UNCHANGED <<input, signed, damaged, scan, result>>

(* The loops of from_base64_impl: the outer one for a group, the inner one *)
(* for a character.  OuterLoopPads does not test for a padding.            *)
OuterLoopPads ==
    /\ pc = "outer"
    /\ IF scan.i <= Len(wire)
       THEN /\ scan' = [scan EXCEPT !.j = 0, !.group = NoScan.group]
            /\ pc' = "inner" /\ UNCHANGED result
       ELSE /\ result' = [bytes |-> scan.out]
            /\ pc' = "done" /\ UNCHANGED scan
    /\ UNCHANGED <<input, wire, signed, damaged>>

OuterLoop ==
    /\ pc = "outer"
    /\ IF scan.i <= Len(wire) /\ wire[scan.i] # Pad
       THEN /\ scan' = [scan EXCEPT !.j = 0, !.group = NoScan.group]
            /\ pc' = "inner" /\ UNCHANGED result
       ELSE /\ result' = [bytes |-> scan.out]
            /\ pc' = "done" /\ UNCHANGED scan
    /\ UNCHANGED <<input, wire, signed, damaged>>

InnerLoopTest == scan.i <= Len(wire) /\ scan.j < 4

(* A character of the tables.                                              *)
TakeCharacter ==
    /\ pc = "inner" /\ InnerLoopTest /\ IsBase64(wire[scan.i])
    /\ scan' = [scan EXCEPT !.group[scan.j + 1] = FromTab(wire[scan.i]),
                            !.i = @ + 1, !.j = @ + 1]
    /\ UNCHANGED <<pc, input, wire, signed, damaged, result>>

(* A white space: the loop starts over with the same character.            *)
MeetSpace ==
    /\ pc = "inner" /\ InnerLoopTest /\ IsSpace(wire[scan.i])
    /\ UNCHANGED vars

MeetInvalid ==
    /\ pc = "inner" /\ InnerLoopTest
    /\ ~ IsBase64(wire[scan.i]) /\ ~ IsSpace(wire[scan.i]) /\ wire[scan.i] # Pad
    /\ pc' = "done"
    /\ UNCHANGED <<input, wire, signed, damaged, scan, result>>

(* The group is full, or the text or a padding ends it.                    *)
EndGroup ==
    /\ pc = "inner" /\ (InnerLoopTest => wire[scan.i] = Pad)
    /\ scan' = [scan EXCEPT !.out = @ \o Group(scan.group, scan.j)]
    /\ pc' = "outer"
    /\ UNCHANGED <<input, wire, signed, damaged, result>>

Next ==
    \/ Write \/ Damage \/ Parse \/ ParseState \/ ParseStrings
    \/ Hex
    \/ WriteText \/ OuterLoop \/ TakeCharacter \/ MeetSpace \/ MeetInvalid \/ EndGroup

(* Nothing but an endless loop keeps the program from going on.            *)
Spec == Init /\ [][Next]_vars /\ WF_vars(Next)

-----------------------------------------------------------------------------
Delivered == pc = "done" /\ ~ damaged

(* What the reader of a message is to get.                                 *)
Original(x) ==
    IF x.kind = "strings" THEN [strings |-> x.strings]
    ELSE [id |-> x.id, sequence |-> x.sequence,
          ecdhPublic |-> x.ecdhPublic, neighbors |-> x.neighbors]

(* A State or a description of a peering comes back as it was, unless its  *)
(* message is too long to be sent at all: the flags, the order of the      *)
(* fields, the byte order of length and sequence, and the ends of the      *)
(* parts are the same for Message::operator binary and Message::Message,   *)
(* and unpack_strings makes no difference for what decrypt leaves behind   *)
(* the strings.                                                            *)
MessagesComeBack ==
    Delivered /\ IsMessage(input) =>
      result = IF TooLong(MessageOf(input)) THEN Failed ELSE Original(input)

(* A message that was cut or changed in a place is not accepted: the       *)
(* signature covers all of the binary before it, the lengths that it was   *)
(* parsed with and the flags included, and a message that looks as if it   *)
(* had no source is dropped by Routing::route.  Bytes after the signature  *)
(* are not noticed, as they count as part of it, but then what is read is  *)
(* what was written.                                                       *)
DamageIsNoticed ==
    pc = "done" /\ damaged /\ result # Failed =>
      IsPrefix(Signed(MessageOf(input)), wire) /\ result = Original(input)

(* Hexadecimal and base64 give the bytes back, the latter with a zero too  *)
(* many when the last group was not a full one: from_base64_impl appends   *)
(* as many bytes as it got characters.  Identifiers, of 33 bytes, come     *)
(* back as they were.                                                      *)
BytesComeBack ==
    /\ Delivered /\ input.kind = "hex" => result = [bytes |-> input.bytes]
    /\ Delivered /\ input.kind = "base64" =>
         result = [bytes |-> IF Len(input.bytes) % 3 = 0 THEN input.bytes
                             ELSE Append(input.bytes, 0)]

(* A white space that the decoder gets to.                                 *)
Blocked(text) ==
    \E k \in DOMAIN text : IsSpace(text[k]) /\ \A m \in 1 .. k - 1 : IsBase64(text[m])

(* The base64 decoder ends for every text, unless it gets to a white       *)
(* space, which it means to skip but never passes.                         *)
DecodingEnds ==
    (pc = "outer" /\ ~ Blocked(wire)) ~> (pc = "done")

=============================================================================
