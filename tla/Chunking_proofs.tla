---------------------------- MODULE Chunking_proofs ----------------------------
(***************************************************************************)
(* How a text is cut into chunks, for every chunk size, overlap and series *)
(* of sentences.  The three properties of the chunks that are written are  *)
(* kept by way of the chunk that is being written: it holds what no chunk  *)
(* holds yet, goes on from the last one, and has a reason for its size.    *)
(***************************************************************************)
EXTENDS Chunking, TLAPS

TypeOK ==
    /\ from \in Nat /\ to \in Nat
    /\ chunks \in Seq(Interval)
    /\ done \in BOOLEAN
    /\ sentences \in Seq(Interval)

(* There is something to write as soon as a sentence has been read.        *)
Progress == from < to \/ (sentences = <<>> /\ chunks = <<>> /\ from = to)

CurrentIsBounded == to - from >= ChunkSize + Separator => OneSentence(Current)

ChunkInv ==
    /\ TypeOK /\ Progress /\ CurrentIsBounded
    /\ SentencesAreWhole /\ ChunksOverlap /\ SizeIsBounded

-----------------------------------------------------------------------------
(* The reader's position and the chunk it writes are of the interval type. *)
LEMMA Positions ==
    ASSUME TypeOK, Progress
    PROVE  /\ Current \in Interval /\ Current.from = from /\ Current.to = to
           /\ Carried \in Nat /\ from <= Carried /\ Carried <= to /\ to - Carried <= Overlap
           /\ IF to - from > Overlap THEN Carried = to - Overlap ELSE Carried = from
BY SettingsAssumption DEF TypeOK, Progress, Current, Interval, Carried

(* There are so many sentences, and so many chunks.                         *)
LEMMA Lengthy ==
    ASSUME TypeOK
    PROVE  /\ Len(sentences) \in Nat /\ Len(chunks) \in Nat
           /\ \A i \in 1..Len(sentences) : sentences[i] \in Interval
           /\ \A j \in 1..Len(chunks) : chunks[j] \in Interval
BY DEF TypeOK

(* Reading a sentence appends it, and moves the end of the current chunk   *)
(* past it.                                                                *)
LEMMA Reading ==
    ASSUME TypeOK, NEW n \in Lengths, Read(n)
    PROVE  /\ to' = to + n + Separator /\ to' \in Nat /\ to < to' /\ ~done /\ ~done'
           /\ sentences' \in Seq(Interval) /\ Len(sentences') = Len(sentences) + 1
           /\ \A i \in 1..Len(sentences) : sentences'[i] = sentences[i]
           /\ sentences'[Len(sentences')] = [from |-> to, to |-> to + n]
           /\ sentences' # <<>>
<1>1. n \in Nat /\ [from |-> to, to |-> to + n] \in Interval
  BY SettingsAssumption DEF TypeOK, Interval
<1> QED BY <1>1 DEF TypeOK, Read, Separator

(* A chunk that is written is the last one; the others stay where they     *)
(* are.                                                                    *)
LEMMA Writing ==
    ASSUME TypeOK, Progress,
           chunks' = (IF to = from THEN chunks ELSE Append(chunks, Current))
    PROVE  /\ chunks' \in Seq(Interval)
           /\ \A j \in 1..Len(chunks) : chunks'[j] = chunks[j]
           /\ \/ sentences = <<>> /\ chunks = <<>> /\ chunks' = <<>>
              \/ /\ Len(chunks') = Len(chunks) + 1
                 /\ chunks'[Len(chunks')] = Current
BY Positions DEF TypeOK, Progress

(* A sentence stays the reason of a chunk's size when more are read.       *)
LEMMA ReasonStays ==
    ASSUME TypeOK, NEW c \in Interval, OneSentence(c),
           \/ UNCHANGED sentences
           \/ \E n \in Lengths : Read(n)
    PROVE  OneSentence(c)'
<1>1. CASE UNCHANGED sentences
  BY <1>1 DEF OneSentence
<1>2. ASSUME NEW n \in Lengths, Read(n)
      PROVE  OneSentence(c)'
  <2>1. PICK i \in 1..Len(sentences) : /\ c.to = sentences[i].to + Separator
                                       /\ sentences[i].from - c.from <= Overlap
    BY DEF OneSentence
  <2>2. /\ Len(sentences) \in Nat /\ Len(sentences') = Len(sentences) + 1
        /\ sentences'[i] = sentences[i]
    BY <1>2, Reading, Lengthy
  <2>3. i \in 1..Len(sentences')
    BY <2>2
  <2> QED BY <2>1, <2>2, <2>3 DEF OneSentence
<1> QED BY <1>1, <1>2

-----------------------------------------------------------------------------
(* The empty text has no sentence and no chunk.                            *)
LEMMA InitChunk == Init => ChunkInv
<1> SUFFICES ASSUME Init
             PROVE  ChunkInv
  OBVIOUS
<1>1. TypeOK /\ Progress /\ CurrentIsBounded
  <2>1. TypeOK
    <3>1. from \in Nat /\ to \in Nat /\ done \in BOOLEAN
      BY DEF Init
    <3>2. chunks \in Seq(Interval) /\ sentences \in Seq(Interval)
      BY DEF Init
    <3> QED BY <3>1, <3>2 DEF TypeOK
  <2>2. ~(to - from >= ChunkSize + Separator)
    BY SettingsAssumption DEF Init, Separator
  <2>3. Progress
    BY DEF Init, Progress
  <2> QED BY <2>1, <2>2, <2>3 DEF CurrentIsBounded
<1>2. Len(sentences) = 0 /\ Len(chunks) = 0 /\ chunks = <<>>
  BY DEF Init
<1>3. SentencesAreWhole /\ ChunksOverlap /\ SizeIsBounded
  BY <1>2 DEF SentencesAreWhole, ChunksOverlap, SizeIsBounded
<1> QED BY <1>1, <1>3 DEF ChunkInv

(* A sentence that fits is added to the current chunk.                     *)
LEMMA ExtendChunk ==
    ASSUME ChunkInv, NEW n \in Lengths, Extend(n)
    PROVE  ChunkInv'
<1> USE DEF ChunkInv
<1>1. /\ Read(n) /\ Fits(n) /\ n \in Nat
      /\ from' = from /\ chunks' = chunks /\ from <= to
  BY SettingsAssumption DEF Extend, TypeOK, Progress
<1>2. TypeOK'
  <2>1. to' \in Nat /\ sentences' \in Seq(Interval) /\ done' = done
    BY <1>1, Reading DEF Read
  <2> QED BY <1>1, <2>1 DEF TypeOK
<1>3. /\ Current' = [from |-> from, to |-> to']
      /\ to' = to + n + Separator /\ to < to' /\ ~done /\ ~done'
  BY <1>1, Reading DEF Current
<1>4. Progress'
  BY <1>1, <1>2, <1>3 DEF Progress, TypeOK
<1>5. CurrentIsBounded'
  BY <1>1, <1>3, SettingsAssumption DEF CurrentIsBounded, Fits, TypeOK, Separator
<1>6. SentencesAreWhole'
  <2> SUFFICES ASSUME NEW i \in 1..Len(sentences')
               PROVE  \/ \E j \in 1..Len(chunks) : Inside(sentences'[i], chunks[j])
                      \/ Inside(sentences'[i], Current')
    BY <1>1, <1>3 DEF SentencesAreWhole, Inside
  <2>1. /\ Len(sentences) \in Nat /\ Len(sentences') = Len(sentences) + 1
        /\ \A k \in 1..Len(sentences) : sentences'[k] = sentences[k]
        /\ sentences'[Len(sentences')] = [from |-> to, to |-> to + n]
    BY <1>1, Reading, Lengthy
  <2>2. CASE i = Len(sentences')
    <3>1. from \in Nat /\ to \in Nat
      BY DEF TypeOK
    <3> QED BY <1>1, <1>3, <2>1, <2>2, <3>1 DEF Inside, Separator
  <2>3. CASE i \in 1..Len(sentences)
    <3>1. sentences'[i] = sentences[i] /\ sentences[i] \in Interval
      BY <2>1, <2>3, Lengthy
    <3>2. sentences[i].to \in Nat /\ to \in Nat /\ to' \in Nat
      BY <1>2, <3>1 DEF Interval, TypeOK
    <3>3. Inside(sentences[i], Current) => Inside(sentences[i], Current')
      BY <1>3, <3>2 DEF Inside, Current
    <3> QED BY <1>3, <2>3, <3>1, <3>3 DEF SentencesAreWhole
  <2> QED BY <2>1, <2>2, <2>3
<1>7. ChunksOverlap'
  <2>1. chunks # <<>> => chunks[Len(chunks)] \in Interval
    BY DEF TypeOK
  <2>2. chunks # <<>> => Follows(chunks[Len(chunks)], Current')
    BY <1>1, <1>3, <2>1 DEF ChunksOverlap, Follows, Current, Interval, TypeOK, Separator
  <2> QED BY <1>1, <2>2 DEF ChunksOverlap, Follows
<1>8. SizeIsBounded'
  <2>1. ASSUME NEW j \in 1..Len(chunks), NEW c \in Interval, c = chunks[j],
               c.to - c.from >= ChunkSize + Separator
        PROVE  OneSentence(c)'
    BY <1>1, <2>1, ReasonStays DEF SizeIsBounded
  <2> QED BY <1>1, <2>1, Lengthy DEF SizeIsBounded, OneSentence
<1> QED BY <1>2, <1>4, <1>5, <1>6, <1>7, <1>8

(* A chunk that is written, because the next sentence does not fit or the  *)
(* text is over, holds what no other chunk held; goes on from the one      *)
(* before it; and has the reason for its size that it had.                 *)
LEMMA WriteChunk ==
    ASSUME ChunkInv, ~done,
           chunks' = (IF to = from THEN chunks ELSE Append(chunks, Current)),
           \/ UNCHANGED sentences
           \/ \E n \in Lengths : Read(n)
    PROVE  /\ \A i \in 1..Len(sentences) :
                \E j \in 1..Len(chunks') : Inside(sentences[i], chunks'[j])
           /\ \A j \in 1..(Len(chunks') - 1) : Follows(chunks'[j], chunks'[j + 1])
           /\ SizeIsBounded'
<1> USE DEF ChunkInv
<1>1. /\ chunks' \in Seq(Interval)
      /\ \A j \in 1..Len(chunks) : chunks'[j] = chunks[j]
      /\ \/ sentences = <<>> /\ chunks = <<>> /\ chunks' = <<>>
         \/ /\ Len(chunks') = Len(chunks) + 1
            /\ chunks'[Len(chunks')] = Current
  BY Writing
<1>2. CASE sentences = <<>> /\ chunks = <<>> /\ chunks' = <<>>
  BY <1>2 DEF SizeIsBounded
<1>3. CASE Len(chunks') = Len(chunks) + 1 /\ chunks'[Len(chunks')] = Current
  <2>1. Len(chunks) \in Nat /\ \A j \in 1..Len(chunks) : j \in 1..Len(chunks')
    BY <1>3 DEF TypeOK
  <2>2. ASSUME NEW i \in 1..Len(sentences)
        PROVE  \E j \in 1..Len(chunks') : Inside(sentences[i], chunks'[j])
    <3>1. CASE Inside(sentences[i], Current)
      BY <1>3, <2>1, <3>1
    <3>2. CASE \E j \in 1..Len(chunks) : Inside(sentences[i], chunks[j])
      BY <1>1, <2>1, <3>2
    <3> QED BY <3>1, <3>2 DEF SentencesAreWhole
  <2>3. ASSUME NEW j \in 1..(Len(chunks') - 1)
        PROVE  Follows(chunks'[j], chunks'[j + 1])
    <3>1. CASE j = Len(chunks)
      <4>1. chunks # <<>> /\ chunks'[j] = chunks[Len(chunks)] /\ chunks'[j + 1] = Current
        BY <1>1, <1>3, <2>1, <2>3, <3>1
      <4> QED BY <4>1 DEF ChunksOverlap
    <3>2. CASE j \in 1..(Len(chunks) - 1)
      <4>1. chunks'[j] = chunks[j] /\ chunks'[j + 1] = chunks[j + 1]
        BY <1>1, <2>1, <3>2
      <4> QED BY <3>2, <4>1 DEF ChunksOverlap
    <3> QED BY <1>3, <2>1, <2>3, <3>1, <3>2
  <2>4. ASSUME NEW j \in 1..Len(chunks'), NEW c \in Interval, c = chunks'[j],
               c.to - c.from >= ChunkSize + Separator
        PROVE  OneSentence(c)'
    <3>1. CASE j = Len(chunks')
      <4>1. c = Current
        BY <1>3, <2>4, <3>1
      <4>2. to - from >= ChunkSize + Separator
        BY <2>4, <4>1, Positions
      <4> QED BY <4>1, <4>2, ReasonStays DEF CurrentIsBounded
    <3>2. CASE j \in 1..Len(chunks)
      <4>1. c = chunks[j]
        BY <1>1, <2>4, <3>2
      <4> QED BY <2>4, <3>2, <4>1, ReasonStays DEF SizeIsBounded
    <3> QED BY <1>3, <2>1, <2>4, <3>1, <3>2
  <2>5. SizeIsBounded'
    <3>1. \A j \in 1..Len(chunks') : chunks'[j] \in Interval
      BY <1>1
    <3> QED BY <2>4, <3>1 DEF SizeIsBounded, OneSentence
  <2> QED BY <2>2, <2>3, <2>5
<1> QED BY <1>1, <1>2, <1>3

(* A sentence that does not fit closes the current chunk, and starts one   *)
(* with what is carried over.                                              *)
LEMMA CloseChunk ==
    ASSUME ChunkInv, NEW n \in Lengths, Close(n)
    PROVE  ChunkInv'
<1> USE DEF ChunkInv
<1>1. /\ Read(n) /\ n \in Nat /\ from' = Carried
      /\ chunks' = (IF to = from THEN chunks ELSE Append(chunks, Current))
      /\ to' = to + n + Separator /\ to' \in Nat /\ to < to' /\ ~done /\ ~done'
      /\ from \in Nat /\ to \in Nat
  BY Reading, SettingsAssumption DEF Close, TypeOK
<1>2. /\ Len(sentences) \in Nat /\ Len(sentences') = Len(sentences) + 1
      /\ \A k \in 1..Len(sentences) : sentences'[k] = sentences[k]
      /\ sentences'[Len(sentences')] = [from |-> to, to |-> to + n]
      /\ sentences' \in Seq(Interval)
  BY <1>1, Reading, Lengthy
<1>3. /\ chunks' \in Seq(Interval) /\ Len(chunks) \in Nat
      /\ \/ sentences = <<>> /\ chunks = <<>> /\ chunks' = <<>>
         \/ /\ Len(chunks') = Len(chunks) + 1
            /\ chunks'[Len(chunks')] = Current
  BY <1>1, Writing, Lengthy
<1>4. /\ Carried \in Nat /\ from <= Carried /\ Carried <= to /\ to - Carried <= Overlap
      /\ IF to - from > Overlap THEN Carried = to - Overlap ELSE Carried = from
      /\ Current.from = from /\ Current.to = to
  BY Positions
<1>5. Current' = [from |-> Carried, to |-> to']
  BY <1>1 DEF Current
<1>6. TypeOK'
  <2>1. done' = done
    BY <1>1 DEF Read
  <2> QED BY <1>1, <1>2, <1>3, <1>4, <2>1 DEF TypeOK
<1>7. Progress'
  BY <1>1, <1>4 DEF Progress
<1>8. CurrentIsBounded'
  <2>1. /\ Len(sentences') \in 1..Len(sentences')
        /\ Current'.to = sentences'[Len(sentences')].to + Separator
        /\ sentences'[Len(sentences')].from - Current'.from <= Overlap
    BY <1>1, <1>2, <1>4, <1>5
  <2> QED BY <2>1 DEF CurrentIsBounded, OneSentence
<1>9. SentencesAreWhole'
  <2> SUFFICES ASSUME NEW i \in 1..Len(sentences')
               PROVE  \/ \E j \in 1..Len(chunks') : Inside(sentences'[i], chunks'[j])
                      \/ Inside(sentences'[i], Current')
    BY <1>1 DEF SentencesAreWhole, Inside
  <2>1. CASE i = Len(sentences')
    BY <1>1, <1>2, <1>4, <1>5, <2>1 DEF Inside, Separator
  <2>2. CASE i \in 1..Len(sentences)
    BY <1>1, <1>2, <2>2, WriteChunk
  <2> QED BY <1>2, <2>1, <2>2
<1>10. ChunksOverlap'
  <2>1. \A j \in 1..(Len(chunks') - 1) : Follows(chunks'[j], chunks'[j + 1])
    BY <1>1, WriteChunk
  <2>2. chunks' # <<>> => Follows(chunks'[Len(chunks')], Current')
    <3>1. CASE chunks' = <<>>
      BY <3>1
    <3>2. CASE chunks'[Len(chunks')] = Current
      <4>1. Follows(Current, Current')
        BY <1>1, <1>4, <1>5, SettingsAssumption DEF Follows
      <4> QED BY <3>2, <4>1
    <3> QED BY <1>3, <3>1, <3>2
  <2> QED BY <2>1, <2>2 DEF ChunksOverlap, Follows
<1>11. SizeIsBounded'
  BY <1>1, WriteChunk
<1> QED BY <1>6, <1>7, <1>8, <1>9, <1>10, <1>11

(* At the end the current chunk is written as it is.                       *)
LEMMA FinishChunk ==
    ASSUME ChunkInv, Finish
    PROVE  ChunkInv'
<1> USE DEF ChunkInv
<1>1. /\ chunks' = (IF to = from THEN chunks ELSE Append(chunks, Current))
      /\ ~done /\ done' = TRUE /\ UNCHANGED <<from, to, sentences>> /\ sentences # <<>>
  BY DEF Finish
<1>2. chunks' \in Seq(Interval)
  BY <1>1, Writing
<1>3. TypeOK' /\ Progress' /\ CurrentIsBounded'
  <2>1. TypeOK'
    BY <1>1, <1>2 DEF TypeOK
  <2>2. Progress'
    BY <1>1 DEF Progress
  <2>3. CurrentIsBounded'
    BY <1>1 DEF CurrentIsBounded, OneSentence, Current
  <2> QED BY <2>1, <2>2, <2>3
<1>4. /\ \A i \in 1..Len(sentences) :
           \E j \in 1..Len(chunks') : Inside(sentences[i], chunks'[j])
      /\ \A j \in 1..(Len(chunks') - 1) : Follows(chunks'[j], chunks'[j + 1])
      /\ SizeIsBounded'
  BY <1>1, WriteChunk
<1>5. SentencesAreWhole' /\ ChunksOverlap'
  BY <1>1, <1>4 DEF SentencesAreWhole, ChunksOverlap, Inside, Follows
<1> QED BY <1>3, <1>4, <1>5

(* What is known of the chunks holds however the text goes on.             *)
LEMMA ChunkInvariant == Spec => []ChunkInv
<1>1. ChunkInv /\ UNCHANGED vars => ChunkInv'
  BY DEF ChunkInv, TypeOK, Progress, CurrentIsBounded, OneSentence, Current,
         SentencesAreWhole, ChunksOverlap, SizeIsBounded, Inside, Follows, vars
<1>2. ChunkInv /\ [Next]_vars => ChunkInv'
  BY <1>1, ExtendChunk, CloseChunk, FinishChunk DEF Next
<1> QED BY <1>2, InitChunk, PTL DEF Spec

(* Every variable keeps its type.                                          *)
THEOREM TypeCorrect == Spec => []TypeOK
<1>1. ChunkInv => TypeOK
  BY DEF ChunkInv
<1> QED BY <1>1, ChunkInvariant, PTL

(* _chunk_text loses and cuts no sentence, whatever the chunk size and the *)
(* overlap.                                                                *)
THEOREM SentencesStayWhole == Spec => []SentencesAreWhole
<1>1. ChunkInv => SentencesAreWhole
  BY DEF ChunkInv
<1> QED BY <1>1, ChunkInvariant, PTL

(* A chunk repeats the end of the one before it and goes on from there.    *)
THEOREM ChunksAlwaysOverlap == Spec => []ChunksOverlap
<1>1. ChunkInv => ChunksOverlap
  BY DEF ChunkInv
<1> QED BY <1>1, ChunkInvariant, PTL

(* Only a sentence that is too long makes a chunk that is.                 *)
THEOREM SizeStaysBounded == Spec => []SizeIsBounded
<1>1. ChunkInv => SizeIsBounded
  BY DEF ChunkInv
<1> QED BY <1>1, ChunkInvariant, PTL
=============================================================================
