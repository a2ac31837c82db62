------------------------------- MODULE Codecs -------------------------------
(***************************************************************************)
(* The encodings of the websocket transport: frames and the HTTP header    *)
(* (ws_util.cpp), and base64 and the request's URI (util.cpp).  Bytes are  *)
(* numbers, the characters of a URI are one-character strings.             *)
(***************************************************************************)
EXTENDS Integers, Sequences, FiniteSets, SequencesExt, Bitwise

-----------------------------------------------------------------------------
(* Frames.  Only the length of a payload that is sent matters.              *)

\* The length as the n-byte big-endian number.
BigEndian(len, n) == [i \in 1..n |-> shiftR(len, 8 * (n - i)) % 256]

FrameHeader(len) ==
  CASE len <= 125 -> <<129, len>>
    [] len >= 126 /\ len <= 65535 -> <<129, 126>> \o BigEndian(len % 65536, 2)
    [] OTHER -> \* htons of the low 16 bits, stored in 64 bits of a little-endian host
         <<129, 127>> \o BigEndian(len % 65536, 2) \o <<0, 0, 0, 0, 0, 0>>

LenBytes(b) == CASE b % 128 = 126 -> 2 [] b % 128 = 127 -> 8 [] OTHER -> 1

FromBigEndian(bytes) == FoldLeft(LAMBDA n, b : n * 256 + b, 0, bytes)

Pending == [pending |-> TRUE]

\* Mutant of Unmask: the mask starts with its second byte.
Unmask_Shift(buffer, header_length, i) ==
  buffer[header_length + i] ^^ buffer[header_length - 4 + (i % 4) + 1]

\* The mask is the last four bytes of the header.
Unmask(buffer, header_length, i) ==
  buffer[header_length + i] ^^ buffer[header_length - 4 + ((i - 1) % 4) + 1]

\* The buffer holds the bytes read so far.
DecodeFrame(buffer) ==
  IF Len(buffer) < 2 \/ Len(buffer) - 2 < LenBytes(buffer[2]) THEN Pending
  ELSE LET n == LenBytes(buffer[2])
           payload_length == IF n = 1 THEN buffer[2] % 128
                             ELSE FromBigEndian(SubSeq(buffer, 3, 2 + n))
           header_length == 1 + n + 4 + (IF n > 1 THEN 1 ELSE 0)
       IN  IF Len(buffer) < header_length + payload_length THEN Pending
           ELSE [pending |-> FALSE,
                 payload |-> [i \in 1..payload_length |-> Unmask(buffer, header_length, i)]]

-----------------------------------------------------------------------------
(* base64Encode.  A digit is its index in the alphabet, 64 is the padding.  *)

Digits(b1, b2, b3) ==
  LET temp == b1 * 65536 + b2 * 256 + b3
  IN  [i \in 1..4 |-> (temp \div (64 ^ (4 - i))) % 64]

Base64Encode(input) ==
  LET full == Len(input) \div 3
      groups == FlattenSeq([g \in 1..full |->
                  Digits(input[3 * g - 2], input[3 * g - 1], input[3 * g])])
      At(i) == input[3 * full + i]
  IN  CASE Len(input) % 3 = 0 -> groups
        [] Len(input) % 3 = 1 -> groups \o SubSeq(Digits(At(1), 0, 0), 1, 2) \o <<64, 64>>
        [] Len(input) % 3 = 2 -> groups \o SubSeq(Digits(At(1), At(2), 0), 1, 3) \o <<64>>

-----------------------------------------------------------------------------
(* parse_uri, on the unescaped URI: "index" is what precedes the "?", and   *)
(* the keys and values that follow are inserted in a map, in which the      *)
(* first value of a key stays.                                              *)

Upto(s, from, c) ==   \* the first position of c, or past the end
  LET at == {i \in from..Len(s) : s[i] = c}
  IN  IF at = {} THEN Len(s) + 1 ELSE CHOOSE i \in at : \A j \in at : i <= j

RECURSIVE ParseParams(_, _, _)
ParseParams(uri, it, pairs) ==
  LET eq == Upto(uri, it, "=")
      amp == Upto(uri, eq + 1, "&")
      read == Append(pairs, <<SubSeq(uri, it, eq - 1), SubSeq(uri, eq + 1, amp - 1)>>)
  IN  IF eq > Len(uri) THEN [ok |-> FALSE, pairs |-> pairs]
      ELSE IF amp > Len(uri) THEN [ok |-> TRUE, pairs |-> read]
      ELSE ParseParams(uri, amp + 1, read)

Params(pairs) ==
  [k \in {pairs[i][1] : i \in DOMAIN pairs} |->
     SelectSeq(pairs, LAMBDA kv : kv[1] = k)[1][2]]

ParseUri(uri) ==
  LET q == Upto(uri, 1, "?")
      failed == [ok |-> FALSE, index |-> <<>>, pairs |-> <<>>]
  IN  IF uri = <<>> \/ Head(uri) # "/" \/ q > Len(uri) THEN failed
      ELSE ParseParams(uri, q + 1, <<>>) @@ [index |-> SubSeq(uri, 1, q - 1)]

-----------------------------------------------------------------------------
(* The HTTP header: the words of the first line, then lines with a name and *)
(* the characters after their colon, if they have one.                      *)

Undefined == "undefined"   \* what lies past the end of a vector

Word(words, i) == IF i <= Len(words) THEN words[i] ELSE Undefined

\* A line without a colon, or with less than two characters after it, is
\* skipped; the value begins with the second of them.  The first of two headers
\* with a name stays.  That the first line has three words is not looked at.
ParseHeader(lines) ==
  IF lines = <<>> THEN [ok |-> FALSE, headers |-> <<>>]
  ELSE LET kept == SelectSeq(Tail(lines), LAMBDA l : l.colon /\ Len(l.rest) >= 2)
       IN  [ok |-> TRUE, method |-> Word(lines[1], 1), uri |-> Word(lines[1], 2),
            version |-> Word(lines[1], 3),
            headers |-> [n \in {kept[i].name : i \in DOMAIN kept} |->
                           Tail(SelectSeq(kept, LAMBDA l : l.name = n)[1].rest)]]

\* The answer to a handshake is made from the client's key (its SHA-1 in
\* base64); without a key there is none.
MakeHeaderResponse(headers) ==
  IF "Sec-WebSocket-Key" \in DOMAIN headers
  THEN [ok |-> TRUE, accept |-> headers["Sec-WebSocket-Key"]] ELSE [ok |-> FALSE]
=============================================================================
