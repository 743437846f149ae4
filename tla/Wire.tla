-------------------------------- MODULE Wire --------------------------------
(***************************************************************************)
(* The framing of internal/protocol/stream.go and the request parsing of   *)
(* rpc.go, as operators. A byte is a number below Base, a header is        *)
(* HeaderLen of them (256 and 4 in the code), and Raw says what the JSON   *)
(* decoder finds in a body: whether it is JSON at all, the messageType and *)
(* requestId, <<>> if missing, and whether the fields of the type fit.     *)
(***************************************************************************)
EXTENDS Integers, Sequences, FiniteSets, SequencesExt

CONSTANTS
  Base, HeaderLen,
  Raw,      \* a function on the bodies
  MaxMsgs,  \* bound: bodies on a stream
  Limits    \* maximum message sizes

ASSUME WireAssumption ==
  /\ Base \in Nat \ {0, 1} /\ HeaderLen \in Nat \ {0} /\ MaxMsgs \in Nat /\ Limits \subseteq Nat
  /\ <<>> \notin DOMAIN Raw

-----------------------------------------------------------------------------
(* Requests.                                                               *)

RequestTypes == 0 .. 9 \cup {201, 202}

\* Mutant of ValidBase: the request ID is not looked for.
ValidBase_NoID(raw) == raw.type # <<>>

\* BaseRequest.Valid.
ValidBase(raw) == raw.type # <<>> /\ raw.id # <<>>

\* The request, or the error that ends decoding. A heartbeat (0) is not decoded
\* a second time.
RequestFromJSON(raw) ==
  IF ~raw.json \/ ~ValidBase(raw) THEN [err |-> "ErrMsgInvalid"]
  ELSE IF raw.type[1] \notin RequestTypes THEN [err |-> "ErrUnknownRequestType"]
  ELSE IF raw.type[1] # 0 /\ ~raw.fields THEN [err |-> "ErrMsgInvalid"]
  ELSE [err |-> "none", type |-> raw.type, id |-> raw.id]

-----------------------------------------------------------------------------
(* Frames.                                                                 *)

\* The length of a body, big-endian.
Header(n) == [i \in 1 .. HeaderLen |-> (n \div Base ^ (HeaderLen - i)) % Base]

\* The length a header states (binary.BigEndian.Uint32).
Uint(h) == FoldLeft(LAMBDA n, b : n * Base + b, 0, h)

\* Encoder.write: what is too large for the limit, or for the header, is
\* refused before a byte is written.
write(msg, maxSize) ==
  IF Len(msg) > maxSize \/ Len(msg) > Base ^ HeaderLen - 1 THEN <<>> ELSE Header(Len(msg)) \o msg

\* io.ReadFull of n bytes from s: the error, if there are fewer.
ReadError(s) == IF s = <<>> THEN "EOF" ELSE "ErrUnexpectedEOF"

\* More and Request, until one of them fails: the requests read from a stream
\* that ends with s, and d.err.
RECURSIVE Decode(_, _)
Decode(s, maxSize) ==
  LET rest == SubSeq(s, HeaderLen + 1, Len(s))
      n    == Uint(SubSeq(s, 1, HeaderLen))
      req  == RequestFromJSON(Raw[SubSeq(rest, 1, n)])
      then == Decode(SubSeq(rest, n + 1, Len(rest)), maxSize)
  IN  IF Len(s) < HeaderLen THEN [reqs |-> <<>>, err |-> ReadError(s)]
      ELSE IF n > maxSize THEN [reqs |-> <<>>, err |-> "ErrMsgTooLarge"]
      ELSE IF Len(rest) < n THEN [reqs |-> <<>>, err |-> ReadError(rest)]
      ELSE IF req.err # "none" THEN [reqs |-> <<>>, err |-> req.err]
      ELSE [reqs |-> <<req>> \o then.reqs, err |-> then.err]

\* Decoder.Err.
Err(err) == IF err = "EOF" THEN "none" ELSE err

-----------------------------------------------------------------------------
(* What decoding is to give, said without bytes: bodies msgs are written by *)
(* an encoder with limit enc, and the stream ends after cut bytes.         *)

\* The bodies that are written.
Written(msgs, enc) == SelectSeq(msgs, LAMBDA m : Len(m) <= enc /\ Len(m) < Base ^ HeaderLen)
Bytes(msgs, enc) == FlattenSeq([k \in DOMAIN msgs |-> write(msgs[k], enc)])

\* Where the frame of each body ends.
End(w, k) == FoldLeft(LAMBDA n, m : n + HeaderLen + Len(m), 0, SubSeq(w, 1, k))

\* The bodies that can be decoded: those before the first that is cut, too
\* large for the decoder, or no request.
Good(w, cut, dec) ==
  CHOOSE n \in 0 .. Len(w) :
    LET ok(k) == End(w, k) <= cut /\ Len(w[k]) <= dec /\ RequestFromJSON(Raw[w[k]]).err = "none" IN
    (\A k \in 1 .. n : ok(k)) /\ (n = Len(w) \/ ~ok(n + 1))

\* A stream: the bodies, the limits of encoder and decoder and the cut.
StreamInputs ==
  UNION {{[kind |-> "stream", msgs |-> msgs, enc |-> enc, dec |-> dec, cut |-> cut] :
            cut \in 0 .. Len(Bytes(msgs, enc))} :
         msgs \in BoundedSeq(DOMAIN Raw, MaxMsgs), enc \in Limits, dec \in Limits}

Decoded(in) == Decode(SubSeq(Bytes(in.msgs, in.enc), 1, in.cut), in.dec)

\* The requests decoded are those written, whole and in order, up to the first
\* that must be refused, and each has an ID.
FramesDecodedOn(in) ==
  LET w == Written(in.msgs, in.enc)
      d == Decoded(in)
  IN  /\ Len(d.reqs) = Good(w, in.cut, in.dec)
      /\ \A k \in DOMAIN d.reqs :
           d.reqs[k].id = Raw[w[k]].id /\ d.reqs[k].type = Raw[w[k]].type /\ d.reqs[k].id # <<>>

\* Err is nil just where a frame has ended, or a header behind it.
TruncationReportedOn(in) ==
  LET w == Written(in.msgs, in.enc)
      n == Good(w, in.cut, in.dec)
  IN  Err(Decoded(in).err) = "none" <=>
        \/ in.cut = End(w, n)
        \/ in.cut = End(w, n) + HeaderLen /\ Len(w[n + 1]) <= in.dec

EndsCleanOn(in) ==
  LET w == Written(in.msgs, in.enc) IN
  Err(Decoded(in).err) = "none" => in.cut = End(w, Good(w, in.cut, in.dec))

=============================================================================
