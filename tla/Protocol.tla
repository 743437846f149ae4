------------------------------ MODULE Protocol ------------------------------
(***************************************************************************)
(* What a plugin and the Launcher say to each other: the behaviours of     *)
(* ResponseWriter, and the operators of Wire and ApiTypes on inputs that   *)
(* are initial states of their own, with no step to take.                  *)
(***************************************************************************)
EXTENDS ResponseWriter, Wire, ApiTypes

VARIABLE input  \* what the operators are applied to

Inputs == StreamInputs \cup ApiInputs

ProtocolInit ==
  /\ Init
  /\ \/ input = [kind |-> "none"]
     \/ input \in Inputs /\ \A v, w \in Writers : req[v] = req[w]
                          /\ req[v] = CHOOSE r \in Requests : r.type \in StreamTypes

ProtocolNext == input.kind = "none" /\ Next /\ UNCHANGED input

ProtocolSpec == ProtocolInit /\ [][ProtocolNext]_<<vars, input>>

-----------------------------------------------------------------------------
(* Safety.                                                                 *)

\* A decoder reads the requests that an encoder wrote, whole and in order, up to
\* the first it must refuse, wherever the stream ends and whatever the limits of
\* the two sides are. Decoder.Err tells a stream that ended between two messages
\* from one that was cut, or holds what cannot be a request, except that a stream
\* that ends right behind a header passes for one that has ended.
StreamsDecoded ==
  input.kind = "stream" => FramesDecodedOn(input) /\ TruncationReportedOn(input)

\* The text that String gives for an environment variable, a port or a mount is
\* read back by Set as the same value, or refused, never as another. A response
\* to a request that names fields holds them and the ID alone, unknown names left
\* aside (WithFields), and each wire field of a job can be named.
TextsAndFields == RoundTrip(input) /\ Projected(input)

-----------------------------------------------------------------------------
(* What the documentation says and the code does not do.                   *)

\* "Err returns the most recently encountered error, or nil if there is none"
\* (internal/protocol/stream.go:135).
EndsClean == input.kind = "stream" => EndsCleanOn(input)

=============================================================================
