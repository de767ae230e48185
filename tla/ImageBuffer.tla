---------------------------- MODULE ImageBuffer ----------------------------
(* ImageBuffer (include/MaaUtils/Buffer/ImageBuffer.hpp): an image and, made *)
(* on demand, the bytes that encode it.  Several buffers, as in a list of    *)
(* images, and a program that holds a cv::Mat of its own.                    *)
(*                                                                           *)
(* A cv::Mat is a handle: those that are equal share their pixels.  Pixels   *)
(* are a picture of some size, or None.  Encoded bytes stand for the pixels  *)
(* that imdecode makes of them.                                              *)
EXTENDS Integers

CONSTANTS
  Buffers,
  Mats,      \* allocated pixels
  Pictures,
  Raw,       \* pictures of a pixel type that imencode refuses
  Sizes,
  None       \* no pixels

VARIABLES
  image_, dirty_, encoded_cache_,
  pixels,    \* what each Mat holds
  mine,      \* the program's own cv::Mat
  shared,    \* history: the Mats handed in by the constructor, or out by get()
  behind     \* history: buffers whose pixels were then written from outside

vars == <<image_, dirty_, encoded_cache_, pixels, mine, shared, behind>>

NoBytes == <<>>
Decode(bytes) == IF bytes = NoBytes THEN None ELSE bytes[1]

Pixels(m) == IF m = None THEN None ELSE pixels[m]
empty(b) == image_[b] = None

\* Mats whose memory is free, or is about to be since only b's image has it.
Free(b) == {m \in Mats : m # mine /\ \A c \in Buffers \ {b} : image_[c] # m}

Init ==
  /\ image_ = [b \in Buffers |-> None]
  /\ dirty_ = [b \in Buffers |-> TRUE]
  /\ encoded_cache_ = [b \in Buffers |-> NoBytes]
  /\ pixels = [m \in Mats |-> None]
  /\ mine = None /\ shared = {} /\ behind = {}

\* image_ = m.
Show(b, m) == image_' = [image_ EXCEPT ![b] = m]

\* image_ = a Mat of its own that holds p; empty if p is None.
ShowNew(b, p) ==
  IF p = None THEN Show(b, None) /\ UNCHANGED <<pixels, shared>>
  ELSE \E m \in Free(b) :
         Show(b, m) /\ pixels' = [pixels EXCEPT ![m] = p] /\ shared' = shared \ {m}

Dirty(b, is) ==
  /\ dirty_' = [dirty_ EXCEPT ![b] = is]
  /\ behind' = behind \ {b}

-----------------------------------------------------------------------------
\* ImageBuffer(image), and a copy of c, as ListBuffer::append makes.
Construct(b) ==
  /\ Show(b, mine) /\ shared' = shared \cup ({mine} \ {None})
  /\ Dirty(b, TRUE)
  /\ encoded_cache_' = [encoded_cache_ EXCEPT ![b] = NoBytes]
  /\ UNCHANGED <<pixels, mine>>

Copy(b, c) ==
  /\ b # c
  /\ Show(b, image_[c])
  /\ dirty_' = [dirty_ EXCEPT ![b] = dirty_[c]]
  /\ encoded_cache_' = [encoded_cache_ EXCEPT ![b] = encoded_cache_[c]]
  /\ behind' = IF c \in behind THEN behind \cup {b} ELSE behind \ {b}
  /\ UNCHANGED <<pixels, mine, shared>>

clear(b) ==
  /\ Show(b, None)
  /\ Dirty(b, dirty_[b])
  /\ encoded_cache_' = [encoded_cache_ EXCEPT ![b] = NoBytes]
  /\ UNCHANGED <<pixels, mine, shared>>

\* get(): the program keeps the Mat.
get(b) ==
  /\ mine' = image_[b]
  /\ shared' = shared \cup ({image_[b]} \ {None})
  /\ UNCHANGED <<image_, dirty_, encoded_cache_, pixels, behind>>

\* Mutant: without clone().
set_Shares(b) ==
  /\ Show(b, mine)
  /\ Dirty(b, TRUE)
  /\ UNCHANGED <<encoded_cache_, pixels, mine, shared>>

set(b) ==
  /\ ShowNew(b, Pixels(mine))
  /\ Dirty(b, TRUE)
  /\ UNCHANGED <<encoded_cache_, mine>>

\* from_encoded, by set and by the constructor. If the bytes cannot be read
\* imdecode returns an empty Mat, and the bytes are kept.
from_encoded(b, bytes) ==
  /\ ShowNew(b, Decode(bytes))
  /\ Dirty(b, FALSE)
  /\ encoded_cache_' = [encoded_cache_ EXCEPT ![b] = bytes]
  /\ UNCHANGED mine

\* A width and height that come to size, or to none, for which cv::resize throws.
\* To its own size an image is copied in place.
resize(b, size) ==
  /\ ~empty(b)
  /\ Dirty(b, TRUE)
  /\ IF size = 0 \/ Pixels(image_[b])[2] = size
     THEN UNCHANGED <<image_, pixels, shared>>
     ELSE ShowNew(b, <<Pixels(image_[b])[1], size>>)
  /\ UNCHANGED <<encoded_cache_, mine>>

\* encode, by encoded() and encoded_size(). What imencode refuses, throws.
encode(b) ==
  /\ dirty_[b]
  /\ ~empty(b) => Pixels(image_[b])[1] \notin Raw
  /\ Dirty(b, FALSE)
  /\ encoded_cache_' =
       [encoded_cache_ EXCEPT ![b] = IF empty(b) THEN NoBytes ELSE <<Pixels(image_[b])>>]
  /\ UNCHANGED <<image_, pixels, mine, shared>>

-----------------------------------------------------------------------------
\* The program makes, or writes into, its own Mat.
Make(p) ==
  /\ \E m \in Mats :
       /\ m # mine /\ \A b \in Buffers : image_[b] # m
       /\ mine' = m /\ pixels' = [pixels EXCEPT ![m] = p]
       /\ shared' = shared \ {m}
  /\ UNCHANGED <<image_, dirty_, encoded_cache_, behind>>

\* raw_data() writes so, too.
Write(picture) ==
  /\ mine # None
  /\ pixels' = [pixels EXCEPT ![mine] = <<picture, @[2]>>]
  /\ behind' = IF mine \in shared
               THEN behind \cup {b \in Buffers : image_[b] = mine /\ ~dirty_[b]} ELSE behind
  /\ UNCHANGED <<image_, dirty_, encoded_cache_, mine, shared>>

\* Bytes that a program may have: none, of a picture, or that nothing can read.
Files == {NoBytes, <<None>>} \cup {<<p>> : p \in (Pictures \ Raw) \X Sizes}

Next ==
  \/ \E b \in Buffers : Construct(b) \/ clear(b) \/ get(b) \/ set(b) \/ encode(b)
  \/ \E b, c \in Buffers : Copy(b, c)
  \/ \E b \in Buffers, bytes \in Files : from_encoded(b, bytes)
  \/ \E b \in Buffers, size \in Sizes \cup {0} : resize(b, size)
  \/ \E picture \in Pictures : Write(picture) \/ \E size \in Sizes : Make(<<picture, size>>)

Spec == Init /\ [][Next]_vars

-----------------------------------------------------------------------------
\* Properties.

\* The cached bytes that encoded() would hand out decode to the image, whatever was
\* set, read, resized, cleared and copied, with errors in between, and whatever the
\* program then did with a Mat it has set; only pixels that the program shares with
\* the buffer, by the constructor or by get(), may be newer than the bytes.
CacheFresh ==
  \A b \in Buffers : ~dirty_[b] /\ b \notin behind =>
    Decode(encoded_cache_[b]) = Pixels(image_[b])

\* The parts of the inductive invariant.
TypeOK ==
  /\ image_ \in [Buffers -> Mats \cup {None}]
  /\ dirty_ \in [Buffers -> BOOLEAN]
  /\ encoded_cache_ = [b \in Buffers |-> encoded_cache_[b]]
  /\ DOMAIN pixels = Mats
  /\ mine \in Mats \cup {None}
  /\ shared \subseteq Mats
  /\ behind \subseteq Buffers

\* A Mat that the program and a buffer have, was handed over.
SharedOpenly == \A b \in Buffers : image_[b] = mine /\ mine # None => mine \in shared
=============================================================================
