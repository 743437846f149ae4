------------------------------ MODULE ApiTypes ------------------------------
(***************************************************************************)
(* Conversions of api/types.go: the text forms of environment variables,   *)
(* ports and mounts (String and Set, as flag.Value wants them), and the    *)
(* projection of a job on the fields a request names. A text is a sequence *)
(* of words and separators; Ints gives the words that are numbers.         *)
(***************************************************************************)
EXTENDS Integers, Sequences, FiniteSets, SequencesExt

CONSTANTS
  Ints,   \* words that are numbers, with their values
  Words,  \* texts of names, values, paths and protocols
  Rooted  \* words that begin with a slash

ASSUME ApiAssumption == \A s, t \in DOMAIN Ints : Ints[s] = Ints[t] => s = t

\* strings.Split, and strings.SplitN for two parts.
Split(s, sep) ==
  FoldLeft(LAMBDA parts, t : IF t = sep THEN Append(parts, <<>>)
                             ELSE [parts EXCEPT ![Len(parts)] = Append(@, t)], <<<<>>>>, s)
SplitTwo(s, sep) ==
  LET parts == Split(s, sep) IN
  IF Len(parts) = 1 THEN parts ELSE <<parts[1], SubSeq(s, Len(parts[1]) + 2, Len(s))>>

\* strconv.Atoi (<<>> for an error) and its inverse.
Atoi(s) == IF Len(s) = 1 /\ s[1] \in DOMAIN Ints THEN <<Ints[s[1]]>> ELSE <<>>
Itoa(n) == <<CHOOSE s \in DOMAIN Ints : Ints[s] = n>>

\* path.IsAbs.
IsAbs(s) == s # <<>> /\ s[1] \in Rooted

\* What a Set returns: the value in brackets, or an error.
Error == <<>>

-----------------------------------------------------------------------------
(* Env, Port and Mount. Set takes any text, String gives one.              *)

EnvString(e) == e.name \o <<"=">> \o e.value

\* Mutant of EnvSet: what follows a second "=" is ignored.
EnvSet_Lax(s) ==
  LET spec == Split(s, "=") IN IF Len(spec) < 2 THEN Error ELSE <<[name |-> spec[1], value |-> spec[2]]>>

EnvSet(s) ==
  LET spec == Split(s, "=") IN IF Len(spec) # 2 THEN Error ELSE <<[name |-> spec[1], value |-> spec[2]]>>

PortString(p) ==
  LET published == IF p.published # <<>> THEN p.published[1] ELSE p.target IN
  Itoa(published) \o <<":">> \o Itoa(p.target) \o <<"/">> \o (IF p.protocol = <<>> THEN <<"tcp">> ELSE p.protocol)

PortSet(s) ==
  LET halves == SplitTwo(s, "/")
      spec   == Split(halves[1], ":")
      port   == Atoi(spec[1])
      target == IF Len(spec) = 2 THEN Atoi(spec[2]) ELSE port
  IN  IF Len(spec) > 2 \/ port = Error \/ target = Error THEN Error
      ELSE <<[target |-> target[1], published |-> IF target # port THEN port ELSE <<>>,
              protocol |-> IF Len(halves) = 2 THEN halves[2] ELSE <<"tcp">>]>>

\* Only host mounts have a text, and it leaves out their name.
MountString(m) ==
  IF m.type # "host" THEN <<>>
  ELSE m.source \o <<":">> \o m.path \o <<":", IF m.readOnly THEN "ro" ELSE "rw">>

MountSet(s) ==
  LET spec == Split(s, ":")
      dst  == IF Len(spec) = 1 THEN spec[1] ELSE spec[2]
  IN  IF \/ ~IsAbs(spec[1]) \/ Len(spec) > 3 \/ ~IsAbs(dst)
         \/ Len(spec) = 3 /\ spec[3] \notin {<<"rw">>, <<"ro">>}
      THEN Error
      ELSE <<[type |-> "host", source |-> spec[1], path |-> dst,
              readOnly |-> Len(spec) = 3 /\ spec[3] = <<"ro">>]>>

-----------------------------------------------------------------------------
(* Job and WithFields.                                                     *)

\* The JSON names of the fields of Job.
JobFields ==
  {"id", "cluster", "name", "user", "group", "queues", "workingDirectory", "container", "initContainers", "host",
   "status", "statusMessage", "statusCode", "pid", "exitCode", "command", "exe", "stdoutFile", "stderrFile", "stdin",
   "args", "environment", "placementConstraints", "lastUpdateTime", "submissionTime", "exposedPorts", "mounts",
   "config", "resourceLimits", "tags", "metadata", "resourceProfile", "systemJob", "instanceId"}

\* The keys of jobFieldSetters.
Setters ==
  {"cluster", "name", "user", "group", "queues", "workingDirectory", "container", "initContainers", "host",
   "status", "statusMessage", "statusCode", "pid", "exitCode", "command", "exe", "stdoutFile", "stderrFile", "stdin",
   "args", "environment", "placementConstraints", "lastUpdateTime", "submissionTime", "exposedPorts", "mounts",
   "config", "resourceLimits", "tags", "metadata", "resourceProfile", "systemJob", "instanceId"}

\* A job is the set of fields that it has populated.
WithFields(populated, fields) ==
  IF fields = <<>> THEN populated
  ELSE populated \cap ({"id"} \cup (Range(fields) \cap Setters))

-----------------------------------------------------------------------------
(* Inputs, and what is to hold of them.                                    *)

Numbers == {Ints[s] : s \in DOMAIN Ints}
ApiInputs ==
  [kind : {"env"}, x : [name : Words, value : Words]]
  \cup [kind : {"port"}, x : [target : Numbers, published : {<<>>} \cup {<<n>> : n \in Numbers}, protocol : Words]]
  \cup [kind : {"mount"}, x : [type : {"host", "nfs"}, source : Words, path : Words, readOnly : BOOLEAN]]
  \cup [kind : {"fields"}, x : BoundedSeq({"id", "status", "Status", "env", "mounts"}, 3)]

Has(s, sep) == \E i \in DOMAIN s : s[i] = sep

\* Set of String gives the value back, with the defaults filled in and what the
\* text cannot say left out; where the text is ambiguous it gives an error, and
\* never another value.
RoundTrip(in) ==
  LET x == in.x IN
  CASE in.kind = "env" ->
         EnvSet(EnvString(x)) = IF Has(x.name, "=") \/ Has(x.value, "=") THEN Error ELSE <<x>>
    [] in.kind = "port" ->
         PortSet(PortString(x)) =
           <<[target |-> x.target, published |-> IF x.published = <<x.target>> THEN <<>> ELSE x.published,
              protocol |-> IF x.protocol = <<>> THEN <<"tcp">> ELSE x.protocol]>>
    [] in.kind = "mount" ->
         MountSet(MountString(x)) =
           IF x.type # "host" \/ ~IsAbs(x.source) \/ ~IsAbs(x.path) \/ Has(x.source, ":") \/ Has(x.path, ":")
           THEN Error ELSE <<x>>
    [] OTHER -> TRUE

\* A projected job has its ID and the fields named, no others, whatever else is
\* named with them; and every field on the wire can be named.
Projected(in) ==
  in.kind = "fields" =>
    /\ WithFields(JobFields, in.x) =
         IF in.x = <<>> THEN JobFields ELSE {"id"} \cup {f \in JobFields : \E i \in DOMAIN in.x : in.x[i] = f}
    /\ \A f \in JobFields : WithFields(JobFields, <<f>>) = {"id", f}

=============================================================================
