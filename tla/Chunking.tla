------------------------------- MODULE Chunking -------------------------------
(***************************************************************************)
(* DocumentService._chunk_text.  The text is a series of sentences, each   *)
(* written back with its separator, so that a chunk (its surrounding blanks*)
(* aside) is an interval of that text: from an interval, taking the last   *)
(* Overlap characters or appending a sentence gives an interval.  The      *)
(* lengths of the sentences are the input, drawn one per step.  They are   *)
(* characters, as len counts them, not words.                              *)
(***************************************************************************)
EXTENDS Integers, Sequences

CONSTANTS
    ChunkSize,      \* CHUNK_SIZE, in characters
    Overlap,        \* CHUNK_OVERLAP
    Lengths,        \* lengths of a sentence
    MaxSentences    \* bound on the input

ASSUME SettingsAssumption ==
    /\ ChunkSize \in Nat
    /\ Overlap \in Nat
    /\ Lengths \subseteq Nat
    /\ MaxSentences \in Nat

VARIABLES
    from, to,   \* current_chunk is [from, to)
    chunks,     \* the chunks appended so far
    done,       \* the last chunk has been appended
    sentences   \* history: where each sentence lies

vars == <<from, to, chunks, done, sentences>>

Interval == [from: Nat, to: Nat]

Separator == 2      \* ". "

Init ==
    /\ from = 0 /\ to = 0
    /\ chunks = <<>>
    /\ done = FALSE
    /\ sentences = <<>>

Current == [from |-> from, to |-> to]

\* Mutant: the text carried over is replaced by what follows it.
CarriedNone == to

(* current_chunk[-overlap:], the whole of a chunk that is shorter.         *)
Carried == IF to - from > Overlap THEN to - Overlap ELSE from

Read(n) ==
    /\ ~done
    /\ Len(sentences) < MaxSentences
    /\ to' = to + n + Separator
    /\ sentences' = Append(sentences, [from |-> to, to |-> to + n])
    /\ UNCHANGED done

\* Mutant: the overlap is not counted.
FitsBesidesOverlap(n) ==
    to - from - (IF chunks = <<>> THEN 0 ELSE Overlap) + n < ChunkSize

Fits(n) == to - from + n < ChunkSize

Extend(n) ==
    /\ Fits(n)
    /\ Read(n)
    /\ UNCHANGED <<from, chunks>>

Close(n) ==
    /\ ~Fits(n)
    /\ Read(n)
    /\ chunks' = IF to = from THEN chunks ELSE Append(chunks, Current)
    /\ from' = Carried

\* Mutant: what is left at the end is dropped unless it is a chunk's size.
FinishFull ==
    /\ ~done /\ sentences # <<>>
    /\ chunks' = IF to - from < ChunkSize THEN chunks ELSE Append(chunks, Current)
    /\ done' = TRUE
    /\ UNCHANGED <<from, to, sentences>>

(* The end of the text: split gives at least one sentence.                 *)
Finish ==
    /\ ~done /\ sentences # <<>>
    /\ chunks' = IF to = from THEN chunks ELSE Append(chunks, Current)
    /\ done' = TRUE
    /\ UNCHANGED <<from, to, sentences>>

Next ==
    \/ \E n \in Lengths : Extend(n) \/ Close(n)
    \/ Finish

Spec == Init /\ [][Next]_vars

-----------------------------------------------------------------------------
Inside(s, c) == c.from <= s.from /\ s.to <= c.to

(* No sentence of a document is lost or cut: each lies whole in a chunk,   *)
(* or in the one being written.                                            *)
SentencesAreWhole ==
    \A i \in 1..Len(sentences) :
        \/ \E j \in 1..Len(chunks) : Inside(sentences[i], chunks[j])
        \/ ~done /\ Inside(sentences[i], Current)

(* README.md: "Text is split into ~500-word chunks with overlap".  Of the  *)
(* overlap this says: a chunk goes on past the end of the one before it    *)
(* and repeats its last Overlap characters, or all of it if it is shorter. *)
(* The size is SizeIsBounded's subject, and is not what the README says.   *)
Follows(c, d) ==
    /\ c.to < d.to
    /\ c.from <= d.from
    /\ d.from <= c.to
    /\ IF c.to - c.from > Overlap THEN d.from = c.to - Overlap ELSE d.from = c.from

ChunksOverlap ==
    /\ \A j \in 1..(Len(chunks) - 1) : Follows(chunks[j], chunks[j + 1])
    /\ ~done /\ chunks # <<>> => Follows(chunks[Len(chunks)], Current)

(* Where the README speaks of words, the code compares CHUNK_SIZE = 500    *)
(* with len, a number of characters, so chunks are much shorter than it    *)
(* says.  This is the bound of the code, not of the README: a chunk is     *)
(* larger than CHUNK_SIZE characters, by more than a separator, only if it *)
(* is one sentence and what it repeats of the chunk before it.             *)
OneSentence(c) ==
    \E i \in 1..Len(sentences) :
        /\ c.to = sentences[i].to + Separator
        /\ sentences[i].from - c.from <= Overlap

SizeIsBounded ==
    \A j \in 1..Len(chunks) :
        chunks[j].to - chunks[j].from >= ChunkSize + Separator => OneSentence(chunks[j])
=============================================================================
