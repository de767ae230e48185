------------------------------ MODULE MCParts ------------------------------
(* The parts of the library that do not work on one another, checked under   *)
(* one configuration: Init chooses a component, which then runs alone, and   *)
(* the variables of the others stay as they were.  The last three have no    *)
(* state of their own, and are checked on each input that Init chooses.      *)
EXTENDS Integers, Sequences, SequencesExt, Encoding, CommandLine

CONSTANTS
  Dispatchers, MaxId, MaxFrames,
  Buffers, Mats, Pictures, Raw, Sizes,
  Contents, Digested, Torn, MaxChanges,
  Cap, Answer, MaxData,
  Gib2, DirectML,
  None

VARIABLES
  component, input,
  observers_, s_global_ob_id, frames,
  image_, dirty_, encoded_cache_, pixels, mine, shared, behind,
  release, tarball, deps, cache, pc, job, assets, queried, caches, tries, changes, changed, been, orderly,
  left, in, owed, out, alive, good, at

D == INSTANCE Dispatcher
I == INSTANCE ImageBuffer
G == INSTANCE Download
W == INSTANCE ChildWrite WITH pc <- at
P == INSTANCE GpuChoice

MCDirectML == <<2019, 5, 21>>

-----------------------------------------------------------------------------
\* The inputs. A text around each border of the encodings, with each noise.
Scalars == {65, 127, 128, 2047, 2048, 55295, 57344, 65535, 65536, 1114111}
Texts == {<<t, noise, part>> : t \in TupleOf(Scalars, 1) \cup TupleOf(Scalars, 2),
                               noise \in Noise, part \in Parts}

\* One argument of up to six characters, or two of up to three.
Strings(n) == UNION {TupleOf({Quote, Slash, Space, "a"}, k) : k \in 0..n}
Arguments == {<<a>> : a \in Strings(6)} \cup TupleOf(Strings(3), 2)

\* Up to two adapters, each of which may lack something, or three that do not.
Card == [vendor_id |-> "Intel", memory |-> 2, software |-> FALSE, device |-> "device",
         path |-> "path", date |-> DirectML, filters |-> {}]
Cards == {[Card EXCEPT !.vendor_id = v, !.memory = m] :
            v \in {"NVIDIA", "AMD", "Intel", "VMware"}, m \in {2, 4}}
With(field, values) == {[Card EXCEPT ![field] = v] : v \in values}
Lacking ==
  {None} \cup With("memory", {None, 1}) \cup With("software", {TRUE})
    \cup With("device", {None}) \cup With("path", {None})
    \cup With("date", {None, <<2018, 12, 31>>, <<2019, 4, 30>>, <<2019, 5, 20>>,
                       <<2019, 6, 1>>, <<2020, 1, 1>>})
    \cup With("filters", {None, {"other"}, {"other", "IndirectKmd"}})
Adapters == (UNION {TupleOf(Cards \cup Lacking, k) : k \in 0..2}) \cup TupleOf(Cards, 3)

-----------------------------------------------------------------------------
Init ==
  /\ D!Init /\ I!Init /\ G!Init /\ W!Init
  /\ \/ component \in {"Dispatcher", "ImageBuffer", "ChildWrite"} /\ input = <<>>
     \/ component = "Download" /\ input = <<>>
     \/ component = "Encoding" /\ input \in Texts
     \/ component = "CommandLine" /\ input \in Arguments
     \/ component = "GpuChoice" /\ input \in Adapters
  /\ component # "Download" => release = [n \in G!Names |-> IF n = "single" THEN "c" ELSE None]

dispatcher == <<observers_, s_global_ob_id, frames>>
image      == <<image_, dirty_, encoded_cache_, pixels, mine, shared, behind>>
download   == <<release, tarball, deps, cache, pc, job, assets, queried, caches, tries,
                changes, changed, been, orderly>>
write      == <<left, in, owed, out, alive, good, at>>

Next ==
  \/ /\ component = "Dispatcher"
     /\ D!Next /\ UNCHANGED <<component, input, image, download, write>>
  \/ /\ component = "ImageBuffer"
     /\ I!Next /\ UNCHANGED <<component, input, dispatcher, download, write>>
  \/ /\ component = "Download"
     /\ G!Next /\ UNCHANGED <<component, input, dispatcher, image, write>>
  \/ /\ component = "ChildWrite"
     /\ W!Next /\ UNCHANGED <<component, input, dispatcher, image, download>>

Fairness == component = "ChildWrite" => W!Fairness

vars == <<component, input, dispatcher, image, download, write>>

Spec == Init /\ [][Next]_vars /\ Fairness

-----------------------------------------------------------------------------
\* A dispatch calls each observer once (Dispatcher).
EachOnce == D!EachOnce

\* The encoded bytes are those of the image (ImageBuffer).
CacheFresh == I!CacheFresh

\* What the record of digests would be trusted for is installed (Download).
TrustedMeansInstalled == G!TrustedMeansInstalled

\* A download that ends has installed the release (Download).
FinishedMeansInstalled == G!FinishedMeansInstalled

\* A write that fits returns (ChildWrite).
WriteReturns == W!WriteReturns

\* Conversions between UTF-8 and wchar_t are each other's inverse (Encoding).
EncodingsInverse ==
  component = "Encoding" => InvertEachOther(input[1], input[2], input[3])

\* The child gets the arguments it was given (CommandLine).
ArgumentsSurvive == component = "CommandLine" => LineSplits(input)

\* The best usable adapter is chosen (GpuChoice).
PicksBestGpu == component = "GpuChoice" => P!PicksBestGpu(input)
=============================================================================
