------------------------ MODULE IndexAttachmentProofs ------------------------
(***************************************************************************)
(* Why a plan is only ever rewritten to an index over the rows it scanned, *)
(* and why that index never shows a mixture of two states of a table,      *)
(* although nothing locks the tables while they are read and compared: for *)
(* any providers, names, partitions and attachments and any interleaving.  *)
(*                                                                         *)
(* A partition that has been written after a copy was made of it holds a   *)
(* batch the copy cannot hold, and so never equals the copy again.         *)
(***************************************************************************)
EXTENDS IndexAttachment, FiniteSetTheorems, TLAPS

Attachment == [name : Name, provider : Provider, column : Column,
               snapshot : Contents, whole : BOOLEAN]

Reading == [stage : {"read"}, name : Name, provider : Provider, column : Column,
            snapshot : Contents, part : Nat, whole : BOOLEAN]

Plan == [stage : {"scan", "rewrite", "own", "others", "other", "decided"},
         provider : Provider, column : Column, source : Contents, part : Nat,
         whole : BOOLEAN, rules : Seq(Attachment), next : Nat \ {0},
         matches : SUBSET Nat, schemas : SUBSET Schema, names : SUBSET Name,
         other : Provider \cup {None}]

(* A copy consists of batches created up to b.                             *)
Old(copy, b) ==
  \A part \in Partitions : \A i \in DOMAIN copy[part] : copy[part][i] <= b

(* A partition now ends in a batch newer than all it held once.            *)
Gone(once, now) == now # <<>> /\ \A i \in DOMAIN once : once[i] < now[Len(now)]

TornFrom(copy, now, first) ==
  \E part \in Partitions : part >= first /\ Gone(copy[part], now[part])

ReadUpTo(copy, now, last) ==
  \A part \in Partitions :
    part < last => copy[part] = now[part] \/ Gone(copy[part], now[part])

Torn(copy, now) == TornFrom(copy, now, 1)

-----------------------------------------------------------------------------
TableInv ==
  /\ catalog \in [Name -> Provider \cup {None}]
  /\ contents \in [Provider -> Contents]
  /\ locked \in SUBSET (Provider \X Partitions) /\ IsFiniteSet(locked)
  /\ created \in Nat \ {0} /\ created + Cardinality(locked) <= MaxBatch
  /\ \A p \in Provider : Old(contents[p], created)

ReadingInv ==
  /\ attach.part \in 1 .. P + 1
  /\ Old(attach.snapshot, created)
  /\ ReadUpTo(attach.snapshot, contents[attach.provider], attach.part)
  /\ attach.part = P + 1 =>
       attach.whole \/ Torn(attach.snapshot, contents[attach.provider])

RulesInv(rules) ==
  \A i \in DOMAIN rules :
    /\ Old(rules[i].snapshot, created)
    /\ rules[i].whole \/ Torn(rules[i].snapshot, contents[rules[i].provider])

AttachInv ==
  /\ attach = Idle \/ (attach \in Reading /\ ReadingInv)
  /\ attachments \in Seq(Attachment)
  /\ RulesInv(attachments)
  /\ \A i \in DOMAIN attachments : attachments[i].snapshot # Empty

ScannedInv == plan.whole \/ Torn(plan.source, contents[plan.provider])

ScanInv ==
  /\ plan.matches = {}
  /\ plan.part \in 1 .. P + 1
  /\ ReadUpTo(plan.source, contents[plan.provider], plan.part)
  /\ plan.part = P + 1 => ScannedInv

(* While the attachment's own provider is compared, a partition that gives *)
(* a mixture away is still ahead.                                          *)
OwnInv ==
  /\ plan.part >= 1
  /\ \/ Trial.whole \/ plan.source # Trial.snapshot
     \/ TornFrom(Trial.snapshot, contents[Trial.provider], plan.part)
  /\ \/ Trial.provider # plan.provider \/ plan.whole
     \/ TornFrom(plan.source, contents[plan.provider], plan.part)

OthersInv ==
  /\ Trial.whole \/ plan.source # Trial.snapshot
  /\ Trial.provider = plan.provider => plan.whole

MatchesInv ==
  \A i \in plan.matches :
    /\ plan.rules[i].snapshot = plan.source
    /\ plan.rules[i].whole
    /\ plan.rules[i].provider = plan.provider => plan.whole

RunningInv ==
  /\ plan \in Plan
  /\ Old(plan.source, created)
  /\ RulesInv(plan.rules)
  /\ MatchesInv
  /\ plan.stage = "scan" => ScanInv
  /\ plan.stage # "scan" => ScannedInv
  /\ plan.stage \in {"own", "others", "other"} => plan.next \in DOMAIN plan.rules
  /\ plan.stage = "own" => OwnInv
  /\ plan.stage \in {"others", "other"} => OthersInv

PlanInv == plan = Idle \/ RunningInv

(* The inductive invariant: each copy is old or its provider gives it      *)
(* away, and so do the comparisons made so far.                            *)
IInv == TableInv /\ AttachInv /\ PlanInv

-----------------------------------------------------------------------------
(* A copy whose partition is gone differs from it.                         *)
LEMMA GoneDiffers ==
  ASSUME NEW once \in Seq(Batch), NEW now \in Seq(Batch), Gone(once, now)
  PROVE  once # now
  <1> SUFFICES ASSUME once = now PROVE FALSE
    OBVIOUS
  <1>1. Len(now) \in DOMAIN once
    BY DEF Gone
  <1>2. now[Len(now)] \in Batch
    BY <1>1
  <1>3. now[Len(now)] \in Int
    BY <1>2 DEF Batch
  <1> QED BY <1>1, <1>3 DEF Gone

(* What a write does to a table: a partition stays or ends in a batch b+1. *)
Wrote(now, later, b) ==
  \A part \in Partitions :
    \/ later[part] = now[part]
    \/ later[part] # <<>> /\ later[part][Len(later[part])] = b + 1

(* A write takes nothing back of what is gone, and what was up to date is  *)
(* up to date or gone.                                                     *)
LEMMA WriteAges ==
  ASSUME NEW copy \in Contents, NEW now \in Contents, NEW later \in Contents,
         NEW b \in Nat, Old(copy, b), Wrote(now, later, b)
  PROVE  /\ Old(copy, b + 1)
         /\ \A first : TornFrom(copy, now, first) => TornFrom(copy, later, first)
         /\ \A last : ReadUpTo(copy, now, last) => ReadUpTo(copy, later, last)
  <1>1. \A part \in Partitions : \A i \in DOMAIN copy[part] : copy[part][i] \in Int
    <2>1. \A part \in Partitions : copy[part] \in Seq(Batch)
      BY DEF Contents
    <2>2. \A part \in Partitions : \A i \in DOMAIN copy[part] : copy[part][i] \in Batch
      BY <2>1
    <2> QED BY <2>2 DEF Batch
  <1>2. Old(copy, b + 1)
    BY <1>1 DEF Old
  <1>3. ASSUME NEW part \in Partitions, later[part] # now[part]
        PROVE  Gone(copy[part], later[part])
    <2>1. later[part] # <<>> /\ later[part][Len(later[part])] = b + 1
      BY <1>3 DEF Wrote
    <2>2. \A i \in DOMAIN copy[part] : copy[part][i] < b + 1
      BY <1>1 DEF Old
    <2> QED BY <2>1, <2>2 DEF Gone
  <1>4. \A first : TornFrom(copy, now, first) => TornFrom(copy, later, first)
    BY <1>3 DEF TornFrom
  <1>5. \A last : ReadUpTo(copy, now, last) => ReadUpTo(copy, later, last)
    BY <1>3 DEF ReadUpTo
  <1> QED BY <1>2, <1>4, <1>5

(* A reader has read one more partition, and after the last of them its    *)
(* copy is what the table holds, or some partition has gone meanwhile.     *)
LEMMA ReadOne ==
  ASSUME NEW copy \in Contents, NEW now \in Contents, NEW part \in Partitions,
         ReadUpTo(copy, now, part), NEW read, read = [copy EXCEPT ![part] = now[part]]
  PROVE  /\ read \in Contents
         /\ ReadUpTo(read, now, part + 1)
         /\ part + 1 = P + 1 => read = now \/ Torn(read, now)
  <1>0. P \in Nat /\ part \in Nat /\ part <= P
    BY ConstantsAssumption DEF Partitions
  <1>1. read \in Contents
    BY DEF Contents
  <1>2. ASSUME NEW o \in Partitions, o < part + 1
        PROVE  read[o] = now[o] \/ Gone(read[o], now[o])
    <2>1. o = part \/ o < part
      BY <1>0, <1>2 DEF Partitions
    <2> QED BY <2>1 DEF ReadUpTo, Contents
  <1>3. ASSUME part + 1 = P + 1, read # now PROVE Torn(read, now)
    <2>1. PICK o \in Partitions : read[o] # now[o]
      BY <1>1, <1>3 DEF Contents
    <2>2. o < part + 1 /\ o >= 1
      BY <1>0, <1>3 DEF Partitions
    <2> QED BY <1>2, <2>1, <2>2 DEF Torn, TornFrom
  <1> QED BY <1>1, <1>2, <1>3 DEF ReadUpTo

-----------------------------------------------------------------------------
LEMMA InitInv == Init => IInv
  <1> SUFFICES ASSUME Init PROVE IInv
    OBVIOUS
  <1>1. contents \in [Provider -> Contents]
    BY ConstantsAssumption DEF Init
  <1>2. locked = {} /\ IsFiniteSet(locked) /\ Cardinality(locked) = 0
    BY FS_EmptySet DEF Init
  <1>3. created \in Nat \ {0} /\ created + Cardinality(locked) <= MaxBatch
    BY <1>2, ConstantsAssumption DEF Init, Batch
  <1>4. TableInv
    BY <1>1, <1>2, <1>3 DEF Init, TableInv, Old
  <1> QED BY <1>4 DEF Init, IInv, AttachInv, RulesInv, PlanInv

(* Nothing but the tables and the copies matters to a copy.                *)
LEMMA CopiesKept ==
  /\ AttachInv /\ UNCHANGED <<contents, created, attach, attachments>> => AttachInv'
  /\ PlanInv /\ UNCHANGED <<contents, created, plan>> => PlanInv'
  BY DEF AttachInv, ReadingInv, RulesInv, PlanInv, RunningInv, MatchesInv, ScannedInv,
         ScanInv, OwnInv, OthersInv, Trial

LEMMA RegistryInv ==
  ASSUME IInv,
         \/ \E name \in Name : Deregister(name)
         \/ \E name \in Name, p \in Provider : Register(name, p)
  PROVE  IInv'
  <1>1. UNCHANGED <<contents, locked, created, attach, attachments, plan>>
    BY DEF Register, Deregister
  <1>2. catalog' \in [Name -> Provider \cup {None}]
    BY DEF IInv, TableInv, Register, Deregister
  <1> QED BY <1>1, <1>2, CopiesKept DEF IInv, TableInv

LEMMA StartWriteInv ==
  ASSUME IInv, NEW p \in Provider, NEW part \in Partitions, StartWrite(p, part)
  PROVE  IInv'
  <1>1. UNCHANGED <<catalog, contents, created, attach, attachments, plan>>
    BY DEF StartWrite
  <1>2. IsFiniteSet(locked) /\ Cardinality(locked) \in Nat
    BY FS_CardinalityType DEF IInv, TableInv
  <1>3. IsFiniteSet(locked') /\ Cardinality(locked') = Cardinality(locked) + 1
    BY <1>2, FS_AddElement DEF StartWrite
  <1>4. created' + Cardinality(locked') <= MaxBatch
    BY <1>1, <1>2, <1>3, ConstantsAssumption DEF StartWrite, IInv, TableInv
  <1>5. locked' \in SUBSET (Provider \X Partitions)
    BY DEF StartWrite, IInv, TableInv
  <1> QED BY <1>1, <1>3, <1>4, <1>5, CopiesKept DEF IInv, TableInv

(* What a sequence is after an element was appended.                       *)
LEMMA Appended ==
  ASSUME NEW S, NEW s \in Seq(S), NEW e \in S
  PROVE  /\ Append(s, e) \in Seq(S) /\ Append(s, e) # <<>>
         /\ Len(Append(s, e)) = Len(s) + 1 /\ Append(s, e)[Len(s) + 1] = e
         /\ \A i \in 1 .. Len(s) : Append(s, e)[i] = s[i]
  OBVIOUS

LEMMA WriteTable ==
  ASSUME IInv, NEW q \in Provider, NEW part \in Partitions, EndWrite(q, part)
  PROVE  /\ TableInv' /\ created' = created + 1
         /\ \A p \in Provider : Wrote(contents[p], contents'[p], created)
  <1>1. UNCHANGED <<catalog, attach, attachments, plan>> /\ created' = created + 1
    BY DEF EndWrite
  <1>2. IsFiniteSet(locked) /\ <<q, part>> \in locked /\ locked' = locked \ {<<q, part>>}
    BY DEF EndWrite, IInv, TableInv
  <1>3. /\ IsFiniteSet(locked') /\ Cardinality(locked) \in Nat
        /\ Cardinality(locked') = Cardinality(locked) - 1 /\ Cardinality(locked') \in Nat
    BY <1>2, FS_RemoveElement, FS_CardinalityType
  <1>4. created' \in Nat \ {0} /\ created' + Cardinality(locked') <= MaxBatch
    BY <1>1, <1>3, ConstantsAssumption DEF IInv, TableInv
  <1>5. created' \in Batch
    BY <1>3, <1>4, ConstantsAssumption DEF Batch
  <1>6. contents \in [Provider -> Contents] /\ contents[q][part] \in Seq(Batch)
    BY DEF IInv, TableInv, Contents
  <1>7. PICK kept \in {<<>>, contents[q][part]} :
          contents' = [contents EXCEPT ![q][part] = Append(kept, created')]
    BY DEF EndWrite
  <1> DEFINE written == Append(kept, created')
  <1>8. /\ kept \in Seq(Batch) /\ written \in Seq(Batch) /\ written # <<>>
        /\ Len(written) = Len(kept) + 1 /\ written[Len(written)] = created'
        /\ \A i \in 1 .. Len(kept) : written[i] = kept[i]
    <2>1. kept \in Seq(Batch)
      <3>1. <<>> \in Seq(Batch)
        OBVIOUS
      <3> QED BY <1>6, <3>1, Zenon
    <2>2. ASSUME NEW e \in Batch
          PROVE  /\ Append(kept, e) \in Seq(Batch) /\ Append(kept, e) # <<>>
                 /\ Len(Append(kept, e)) = Len(kept) + 1
                 /\ Append(kept, e)[Len(kept) + 1] = e
                 /\ \A i \in 1 .. Len(kept) : Append(kept, e)[i] = kept[i]
      BY <2>1, Appended
    <2>3. /\ written \in Seq(Batch) /\ written # <<>>
          /\ Len(written) = Len(kept) + 1 /\ written[Len(kept) + 1] = created'
          /\ \A i \in 1 .. Len(kept) : written[i] = kept[i]
      BY <1>5, <2>2, Zenon
    <2> HIDE DEF written
    <2> QED BY <2>1, <2>3
  <1>9. \A i \in DOMAIN written : written[i] <= created'
    <2>1. \A i \in 1 .. Len(kept) : kept[i] <= created
      BY <1>6, <1>7 DEF IInv, TableInv, Old
    <2>2. \A i \in 1 .. Len(kept) : kept[i] \in Batch
      BY <1>8
    <2>3. \A i \in 1 .. Len(kept) : written[i] <= created'
      BY <1>1, <1>8, <2>1, <2>2 DEF Batch, IInv, TableInv
    <2> QED BY <1>4, <1>8, <2>3
  <1> HIDE DEF written
  <1>10. \A p \in Provider, o \in Partitions :
           contents'[p][o] = IF p = q /\ o = part THEN written ELSE contents[p][o]
    BY <1>6, <1>7 DEF written, Contents
  <1>11. contents' \in [Provider -> Contents]
    <2>1. [contents[q] EXCEPT ![part] = written] \in Contents
      BY <1>6, <1>8 DEF Contents
    <2> QED BY <1>6, <1>7, <2>1 DEF written
  <1>12. ASSUME NEW p \in Provider
         PROVE  Wrote(contents[p], contents'[p], created) /\ Old(contents'[p], created')
    <2>1. Wrote(contents[p], contents'[p], created)
      BY <1>1, <1>8, <1>10 DEF Wrote
    <2>2. Old(contents[p], created')
      BY <1>1, <1>6, WriteAges, <2>1, <1>11 DEF IInv, TableInv
    <2> QED BY <1>9, <1>10, <2>1, <2>2 DEF Old
  <1>13. locked' \in SUBSET (Provider \X Partitions)
    BY <1>2 DEF IInv, TableInv
  <1> QED BY <1>1, <1>3, <1>4, <1>11, <1>12, <1>13 DEF IInv, TableInv

LEMMA EndWriteInv ==
  ASSUME IInv, NEW q \in Provider, NEW part \in Partitions, EndWrite(q, part)
  PROVE  IInv'
  <1>1. UNCHANGED <<attach, attachments, plan>> /\ created \in Nat
    BY DEF EndWrite, IInv, TableInv
  <1>2. /\ TableInv' /\ created' = created + 1
        /\ \A p \in Provider : Wrote(contents[p], contents'[p], created)
    BY WriteTable
  <1>3. \A p \in Provider : contents[p] \in Contents /\ contents'[p] \in Contents
    BY <1>2 DEF IInv, TableInv
  <1>4. ASSUME NEW copy \in Contents, NEW p \in Provider, Old(copy, created)
        PROVE  /\ Old(copy, created')
               /\ \A first : TornFrom(copy, contents[p], first)
                                => TornFrom(copy, contents'[p], first)
               /\ \A last : ReadUpTo(copy, contents[p], last)
                               => ReadUpTo(copy, contents'[p], last)
               /\ Torn(copy, contents[p]) => Torn(copy, contents'[p])
    <2>1. /\ contents[p] \in Contents /\ contents'[p] \in Contents
          /\ Wrote(contents[p], contents'[p], created)
      BY <1>2, <1>3
    <2> QED BY <1>1, <1>2, <1>4, <2>1, WriteAges DEF Torn
  <1>5. ASSUME NEW rules \in Seq(Attachment), RulesInv(rules)
        PROVE  \A i \in DOMAIN rules :
                 /\ Old(rules[i].snapshot, created')
                 /\ rules[i].whole \/ Torn(rules[i].snapshot, contents'[rules[i].provider])
    <2> SUFFICES ASSUME NEW i \in DOMAIN rules
                 PROVE  /\ Old(rules[i].snapshot, created')
                        /\ \/ rules[i].whole
                           \/ Torn(rules[i].snapshot, contents'[rules[i].provider])
      OBVIOUS
    <2>1. rules[i] \in Attachment
      BY <1>5
    <2>2. rules[i].snapshot \in Contents /\ rules[i].provider \in Provider
      BY <2>1 DEF Attachment
    <2> QED BY <1>4, <1>5, <2>2 DEF RulesInv
  <1>6. AttachInv'
    <2>1. attachments' \in Seq(Attachment) /\ RulesInv(attachments)'
          /\ \A i \in DOMAIN attachments' : attachments'[i].snapshot # Empty
      BY <1>1, <1>5 DEF IInv, AttachInv, RulesInv
    <2>2. ASSUME attach \in Reading, ReadingInv PROVE ReadingInv'
      <3>1. attach.snapshot \in Contents /\ attach.provider \in Provider
        BY <2>2 DEF Reading
      <3> QED BY <1>1, <1>4, <2>2, <3>1 DEF ReadingInv
    <2> QED BY <1>1, <2>1, <2>2 DEF IInv, AttachInv
  <1>7. PlanInv'
    <2> SUFFICES ASSUME RunningInv PROVE RunningInv'
      BY <1>1 DEF IInv, PlanInv
    <2>1. /\ plan.source \in Contents /\ plan.provider \in Provider
          /\ plan.rules \in Seq(Attachment)
      BY DEF RunningInv, Plan
    <2>2. /\ Old(plan.source, created') /\ RulesInv(plan.rules)'
          /\ ScannedInv => ScannedInv'
      BY <1>1, <1>4, <1>5, <2>1 DEF RunningInv, RulesInv, ScannedInv
    <2>3. plan.stage = "scan" => ScanInv'
      BY <1>1, <1>4, <2>1, <2>2 DEF RunningInv, ScanInv
    <2>4. plan.stage = "own" => OwnInv'
      <3> SUFFICES ASSUME plan.stage = "own" PROVE OwnInv'
        OBVIOUS
      <3>1. Trial \in Attachment
        BY <2>1 DEF RunningInv, Trial
      <3>2. Trial.snapshot \in Contents /\ Trial.provider \in Provider
        BY <3>1 DEF Attachment
      <3>3. Old(Trial.snapshot, created) /\ Trial' = Trial
        BY <1>1 DEF RunningInv, RulesInv, Trial
      <3> QED BY <1>1, <1>4, <2>1, <3>2, <3>3 DEF RunningInv, OwnInv
    <2> QED BY <1>1, <2>2, <2>3, <2>4
      DEF RunningInv, MatchesInv, OthersInv, Trial
  <1> QED BY <1>2, <1>6, <1>7 DEF IInv

-----------------------------------------------------------------------------
(* The copy before a reader has begun.                                     *)
LEMMA EmptyCopy ==
  /\ Empty \in Contents
  /\ \A b : Old(Empty, b)
  /\ \A now : ReadUpTo(Empty, now, 1)
  /\ 1 \in 1 .. P + 1 /\ 1 # P + 1
  <1>1. P \in Nat \ {0}
    BY ConstantsAssumption
  <1>2. Empty \in Contents
    <2>1. <<>> \in Seq(Batch)
      OBVIOUS
    <2> QED BY <2>1 DEF Empty, Contents
  <1>3. \A b : Old(Empty, b)
    BY DEF Old, Empty
  <1>4. \A now : ReadUpTo(Empty, now, 1)
    BY DEF ReadUpTo, Partitions
  <1> QED BY <1>1, <1>2, <1>3, <1>4

(* A reader's next copy is as old as the tables.                           *)
LEMMA CopyOne ==
  ASSUME TableInv, NEW copy \in Contents, NEW p \in Provider, NEW part \in Partitions,
         Old(copy, created), ReadUpTo(copy, contents[p], part),
         NEW read, read = Copied(copy, p, part)
  PROVE  /\ read \in Contents /\ Old(read, created)
         /\ ReadUpTo(read, contents[p], part + 1)
         /\ part + 1 = P + 1 => read = contents[p] \/ Torn(read, contents[p])
         /\ part + 1 \in 1 .. P + 1
  <1>1. contents[p] \in Contents /\ Old(contents[p], created)
    BY DEF TableInv
  <1>2. read = [copy EXCEPT ![part] = contents[p][part]]
    BY DEF Copied
  <1>3. Old(read, created)
    BY <1>1, <1>2 DEF Old, Contents
  <1>4. part + 1 \in 1 .. P + 1
    BY ConstantsAssumption DEF Partitions
  <1> QED BY <1>1, <1>2, <1>3, <1>4, ReadOne

LEMMA AttachingInv ==
  ASSUME IInv, \/ \E name \in Name, p \in Provider, c \in Column : BeginAttach(name, p, c)
               \/ Attaching
  PROVE  IInv'
  <1>1. UNCHANGED <<catalog, contents, locked, created, plan>>
    BY DEF BeginAttach, Attaching, AttachPartition, EndAttach, table
  <1>2. TableInv' /\ PlanInv'
    BY <1>1, CopiesKept DEF IInv, TableInv
  <1>3. ASSUME NEW name \in Name, NEW p \in Provider, NEW c \in Column,
               BeginAttach(name, p, c)
        PROVE  AttachInv'
    <2>1. attach' = [stage |-> "read", name |-> name, provider |-> p, column |-> c,
                     snapshot |-> Empty, part |-> 1, whole |-> FALSE]
      BY <1>3 DEF BeginAttach
    <2>2. attach' \in Reading
      BY <2>1, EmptyCopy DEF Reading
    <2>3. ReadingInv'
      BY <1>1, <2>1, EmptyCopy DEF ReadingInv
    <2> QED BY <1>1, <1>3, <2>2, <2>3 DEF IInv, AttachInv, RulesInv, BeginAttach
  <1>4. ASSUME AttachPartition PROVE AttachInv'
    <2> DEFINE read == Copied(attach.snapshot, attach.provider, attach.part)
    <2>1. attach \in Reading /\ ReadingInv
      BY <1>4 DEF IInv, AttachInv, AttachPartition, Idle
    <2>2. /\ attach.snapshot \in Contents /\ attach.provider \in Provider
          /\ attach.part \in Partitions
      BY <1>4, <2>1 DEF Reading, AttachPartition, Readable
    <2>3. attach' = [attach EXCEPT !.snapshot = read, !.part = @ + 1,
                                   !.whole = (read = contents[attach.provider])]
      BY <1>4 DEF AttachPartition
    <2>4. /\ read \in Contents /\ Old(read, created)
          /\ ReadUpTo(read, contents[attach.provider], attach.part + 1)
          /\ attach.part + 1 = P + 1 =>
               read = contents[attach.provider] \/ Torn(read, contents[attach.provider])
          /\ attach.part + 1 \in 1 .. P + 1
      BY <2>1, <2>2, CopyOne DEF IInv, ReadingInv
    <2> DEFINE same == read = contents[attach.provider]
    <2>a. same \in BOOLEAN
      OBVIOUS
    <2>b. attach' = [attach EXCEPT !.snapshot = read, !.part = @ + 1, !.whole = same]
      BY <2>3
    <2>c. read = contents[attach.provider] => same
      OBVIOUS
    <2> HIDE DEF read, same
    <2>5. attach' \in Reading
      <3>1. attach.part + 1 \in Nat
        BY <2>1 DEF Reading
      <3>2. attach' = [stage |-> "read", name |-> attach.name,
                       provider |-> attach.provider, column |-> attach.column,
                       snapshot |-> read, part |-> attach.part + 1, whole |-> same]
        BY <2>1, <2>b DEF Reading
      <3> QED BY <2>1, <2>4, <2>a, <3>1, <3>2 DEF Reading
    <2>6. /\ attach'.snapshot = read /\ attach'.provider = attach.provider
          /\ attach'.part = attach.part + 1 /\ attach'.whole = same
      BY <2>1, <2>b DEF Reading
    <2>7. ReadingInv'
      BY <1>1, <2>4, <2>6, <2>c DEF ReadingInv
    <2> QED BY <1>1, <1>4, <2>5, <2>7 DEF IInv, AttachInv, RulesInv, AttachPartition
  <1>5. ASSUME EndAttach PROVE AttachInv'
    <2> DEFINE new == [name |-> attach.name, provider |-> attach.provider,
                       column |-> attach.column, snapshot |-> attach.snapshot,
                       whole |-> attach.whole]
    <2>1. attach \in Reading /\ ReadingInv
      BY <1>5 DEF IInv, AttachInv, EndAttach, Idle
    <2>2. attach.part = P + 1
      BY <1>5, <2>1, ConstantsAssumption DEF EndAttach, ReadingInv, Partitions
    <2>3. new \in Attachment
      BY <2>1 DEF Reading, Attachment
    <2>4. /\ Old(new.snapshot, created)
          /\ new.whole \/ Torn(new.snapshot, contents[new.provider])
      BY <2>1, <2>2 DEF ReadingInv
    <2>5. attach' = Idle
          /\ attachments' = IF attach.snapshot = Empty THEN attachments
                            ELSE Append(attachments, new)
      BY <1>5 DEF EndAttach
    <2>6. new.snapshot = attach.snapshot
      OBVIOUS
    <2> HIDE DEF new
    <2>7. CASE attach.snapshot = Empty
      BY <1>1, <2>5, <2>7 DEF IInv, AttachInv, RulesInv
    <2>8. CASE attach.snapshot # Empty
      <3>1. attachments \in Seq(Attachment)
        BY DEF IInv, AttachInv
      <3>2. /\ attachments' \in Seq(Attachment)
            /\ DOMAIN attachments' = 1 .. Len(attachments) + 1
            /\ attachments'[Len(attachments) + 1] = new
            /\ \A i \in 1 .. Len(attachments) : attachments'[i] = attachments[i]
        BY <2>3, <2>5, <2>8, <3>1, Appended
      <3>3. \A i \in DOMAIN attachments' : attachments'[i] = new \/
              (i \in DOMAIN attachments /\ attachments'[i] = attachments[i])
        BY <3>1, <3>2
      <3>4. RulesInv(attachments)'
        BY <1>1, <2>4, <3>3 DEF IInv, AttachInv, RulesInv
      <3>5. \A i \in DOMAIN attachments' : attachments'[i].snapshot # Empty
        BY <2>6, <2>8, <3>3 DEF IInv, AttachInv
      <3> QED BY <2>5, <3>2, <3>4, <3>5 DEF AttachInv
    <2> QED BY <2>7, <2>8
  <1> QED BY <1>2, <1>3, <1>4, <1>5 DEF IInv, Attaching

-----------------------------------------------------------------------------
LEMMA BeginPlanInv ==
  ASSUME IInv, NEW name \in Name, NEW c \in Column, BeginPlan(name, c)
  PROVE  PlanInv'
  <1>1. UNCHANGED <<contents, created, attachments>>
    BY DEF BeginPlan, table
  <1>2. plan' = [stage |-> "scan", provider |-> catalog[name], column |-> c,
                 source |-> Empty, part |-> 1, whole |-> FALSE,
                 rules |-> attachments, next |-> 1, matches |-> {},
                 schemas |-> {}, names |-> {}, other |-> None]
    BY DEF BeginPlan
  <1>3. catalog[name] \in Provider /\ attachments \in Seq(Attachment) /\ RulesInv(attachments)
    BY DEF BeginPlan, IInv, TableInv, AttachInv
  <1>4. plan' \in Plan
    BY <1>2, <1>3, EmptyCopy DEF Plan
  <1>5. ScanInv'
    BY <1>1, <1>2, EmptyCopy DEF ScanInv
  <1>6. Old(plan.source, created)' /\ RulesInv(plan.rules)' /\ MatchesInv'
    BY <1>1, <1>2, <1>3, EmptyCopy DEF RulesInv, MatchesInv
  <1> QED BY <1>2, <1>4, <1>5, <1>6 DEF PlanInv, RunningInv

LEMMA ScanInvStep ==
  ASSUME IInv, ScanPartition \/ EndScan
  PROVE  PlanInv'
  <1>1. UNCHANGED <<contents, created>>
    BY DEF ScanPartition, EndScan, table
  <1>2. RunningInv /\ plan \in Plan /\ plan.stage = "scan" /\ ScanInv
    BY DEF IInv, PlanInv, RunningInv, ScanPartition, EndScan, Idle
  <1>3. ASSUME ScanPartition PROVE RunningInv'
    <2> DEFINE read == Copied(plan.source, plan.provider, plan.part)
               same == read = contents[plan.provider]
    <2>1. /\ plan.source \in Contents /\ plan.provider \in Provider
          /\ plan.part \in Partitions
      BY <1>2, <1>3 DEF Plan, ScanPartition, Readable
    <2>2. /\ read \in Contents /\ Old(read, created)
          /\ ReadUpTo(read, contents[plan.provider], plan.part + 1)
          /\ plan.part + 1 = P + 1 =>
               read = contents[plan.provider] \/ Torn(read, contents[plan.provider])
          /\ plan.part + 1 \in 1 .. P + 1
      BY <1>2, <2>1, CopyOne DEF IInv, RunningInv, ScanInv
    <2>3. plan' = [plan EXCEPT !.source = read, !.part = @ + 1, !.whole = same]
      BY <1>3 DEF ScanPartition
    <2>4. same \in BOOLEAN /\ (read = contents[plan.provider] => same)
      OBVIOUS
    <2> HIDE DEF read, same
    <2>5. plan' = [stage |-> plan.stage, provider |-> plan.provider,
                   column |-> plan.column, source |-> read, part |-> plan.part + 1,
                   whole |-> same, rules |-> plan.rules, next |-> plan.next,
                   matches |-> plan.matches, schemas |-> plan.schemas,
                   names |-> plan.names, other |-> plan.other]
      BY <1>2, <2>3 DEF Plan
    <2>6. plan' \in Plan
      <3>1. plan.part + 1 \in Nat
        BY <1>2 DEF Plan
      <3> QED BY <1>2, <2>2, <2>4, <2>5, <3>1 DEF Plan
    <2>7. ScanInv'
      BY <1>1, <1>2, <2>2, <2>4, <2>5 DEF ScanInv, ScannedInv
    <2>8. Old(plan.source, created)' /\ RulesInv(plan.rules)' /\ MatchesInv'
      BY <1>1, <1>2, <2>2, <2>5 DEF RunningInv, RulesInv, ScanInv, MatchesInv
    <2> QED BY <1>2, <2>5, <2>6, <2>7, <2>8 DEF RunningInv
  <1>4. ASSUME EndScan PROVE RunningInv'
    <2>1. plan' = [plan EXCEPT !.stage = "rewrite"]
      BY <1>4 DEF EndScan
    <2>2. plan' \in Plan
      BY <1>2, <2>1 DEF Plan
    <2>3. /\ plan'.stage = "rewrite" /\ plan'.source = plan.source /\ plan'.whole = plan.whole
          /\ plan'.provider = plan.provider /\ plan'.rules = plan.rules
          /\ plan'.matches = plan.matches
      BY <1>2, <2>1 DEF Plan
    <2>4. ScannedInv
      BY <1>2, <1>4, ConstantsAssumption DEF ScanInv, EndScan, Partitions
    <2> QED BY <1>1, <1>2, <2>2, <2>3, <2>4
      DEF RunningInv, ScannedInv, RulesInv, MatchesInv
  <1> QED BY <1>3, <1>4 DEF PlanInv

-----------------------------------------------------------------------------
(* A step of the optimizer keeps what was scanned and the rules; what      *)
(* remains to be shown of it is its stage and its matches.                 *)
LEMMA SameScan ==
  ASSUME RunningInv, plan.stage # "scan", UNCHANGED <<contents, created>>,
         plan' \in Plan, plan'.stage # "scan",
         plan'.source = plan.source, plan'.whole = plan.whole,
         plan'.provider = plan.provider, plan'.rules = plan.rules,
         MatchesInv',
         plan'.stage \in {"own", "others", "other"} =>
           plan'.next \in DOMAIN plan.rules /\ plan'.next = plan.next,
         plan'.stage = "own" => OwnInv',
         plan'.stage \in {"others", "other"} => OthersInv'
  PROVE  RunningInv'
  BY DEF RunningInv, ScannedInv, RulesInv

(* The fields of a plan after a rejection.                                 *)
LEMMA RejectedPlan ==
  ASSUME RunningInv, plan.stage # "scan", UNCHANGED <<contents, created>>,
         plan' = Rejected
  PROVE  RunningInv'
  <1>1. plan \in Plan
    BY DEF RunningInv
  <1>2. plan.next + 1 \in Nat \ {0}
    BY <1>1 DEF Plan
  <1>3. plan' \in Plan
    BY <1>1, <1>2 DEF Rejected, Plan
  <1>4. /\ plan'.stage = "rewrite" /\ plan'.source = plan.source
        /\ plan'.whole = plan.whole /\ plan'.provider = plan.provider
        /\ plan'.rules = plan.rules /\ plan'.matches = plan.matches
    BY <1>1 DEF Rejected, Plan
  <1>5. MatchesInv'
    BY <1>4 DEF RunningInv, MatchesInv
  <1> QED BY <1>3, <1>4, <1>5, SameScan

LEMMA RunningTyped ==
  ASSUME IInv, plan.stage # "idle"
  PROVE  RunningInv /\ plan \in Plan
  BY DEF IInv, PlanInv, RunningInv, Idle

(* The attachment being tried.                                             *)
LEMMA TrialTyped ==
  ASSUME RunningInv, plan.next \in DOMAIN plan.rules
  PROVE  /\ Trial.snapshot \in Contents /\ Trial.provider \in Provider
         /\ Trial.whole \/ Torn(Trial.snapshot, contents[Trial.provider])
  <1>1. plan.rules \in Seq(Attachment)
    BY DEF RunningInv, Plan
  <1>2. Trial \in Attachment
    BY <1>1 DEF Trial
  <1> QED BY <1>2 DEF Attachment, RunningInv, RulesInv, Trial

LEMMA TryInv == ASSUME IInv, TryAttachment PROVE PlanInv'
  <1>1. /\ UNCHANGED <<contents, created>> /\ RunningInv /\ plan \in Plan
        /\ plan.stage = "rewrite"
    BY RunningTyped DEF TryAttachment, table
  <1>2. CASE plan' = Rejected
    BY <1>1, <1>2, RejectedPlan DEF PlanInv
  <1>3. CASE plan' = [plan EXCEPT !.stage = "own", !.part = 1]
    <2>1. plan.next \in DOMAIN plan.rules
      BY <1>1 DEF TryAttachment, MoreTrials, Plan
    <2>2. plan' \in Plan
      BY <1>1, <1>3 DEF Plan
    <2>3. /\ plan'.stage = "own" /\ plan'.part = 1 /\ plan'.next = plan.next
          /\ plan'.source = plan.source /\ plan'.whole = plan.whole
          /\ plan'.provider = plan.provider /\ plan'.rules = plan.rules
          /\ plan'.matches = plan.matches
      BY <1>1, <1>3 DEF Plan
    <2>4. MatchesInv'
      BY <1>1, <2>3 DEF RunningInv, MatchesInv
    <2>5. OwnInv'
      BY <1>1, <2>1, <2>3, TrialTyped
      DEF RunningInv, OwnInv, Trial, ScannedInv, Torn
    <2> QED BY <1>1, <2>1, <2>2, <2>3, <2>4, <2>5, SameScan DEF PlanInv
  <1> QED BY <1>2, <1>3 DEF TryAttachment

LEMMA CompareOwnInv == ASSUME IInv, CompareOwn PROVE PlanInv'
  <1>1. /\ UNCHANGED <<contents, created>> /\ RunningInv /\ plan \in Plan
        /\ plan.stage = "own" /\ OwnInv /\ plan.next \in DOMAIN plan.rules
    BY RunningTyped DEF CompareOwn, table, RunningInv
  <1>2. /\ Trial.snapshot \in Contents /\ Trial.provider \in Provider
        /\ plan.source \in Contents /\ plan.provider \in Provider
        /\ contents[Trial.provider] \in Contents /\ contents[plan.provider] \in Contents
    BY <1>1, TrialTyped DEF Plan, IInv, TableInv
  <1>3. CASE plan' = Rejected
    BY <1>1, <1>3, RejectedPlan DEF PlanInv
  <1>4. CASE /\ plan.part \notin Partitions
             /\ plan' = [plan EXCEPT !.stage = "others", !.schemas = Schema]
    <2>1. \A part \in Partitions : ~(part >= plan.part)
      BY <1>1, <1>4, ConstantsAssumption DEF OwnInv, Partitions, Plan
    <2>2. OthersInv
      BY <1>1, <2>1 DEF OwnInv, OthersInv, TornFrom
    <2>4. plan' \in Plan
      BY <1>1, <1>4 DEF Plan
    <2>5. /\ plan'.stage = "others" /\ plan'.next = plan.next
          /\ plan'.source = plan.source /\ plan'.whole = plan.whole
          /\ plan'.provider = plan.provider /\ plan'.rules = plan.rules
          /\ plan'.matches = plan.matches
      BY <1>1, <1>4 DEF Plan
    <2>6. MatchesInv' /\ OthersInv'
      BY <1>1, <2>2, <2>5 DEF RunningInv, MatchesInv, OthersInv, Trial
    <2> QED BY <1>1, <2>4, <2>5, <2>6, SameScan DEF PlanInv
  <1>5. CASE /\ plan.part \in Partitions /\ PartitionMatches(Trial.provider, plan.part)
             /\ plan' = [plan EXCEPT !.part = @ + 1]
    <2>1. /\ contents[Trial.provider][plan.part] = plan.source[plan.part]
          /\ plan.part \in Nat /\ plan.part + 1 \in Nat
      BY <1>1, <1>5 DEF PartitionMatches, Plan
    <2>2. ASSUME NEW copy \in Contents, NEW now \in Contents,
                 TornFrom(copy, now, plan.part),
                 now[plan.part] = plan.source[plan.part], copy = plan.source
          PROVE  TornFrom(copy, now, plan.part + 1)
      <3>1. PICK o \in Partitions : o >= plan.part /\ Gone(copy[o], now[o])
        BY <2>2 DEF TornFrom
      <3>2. copy[o] \in Seq(Batch) /\ now[o] \in Seq(Batch)
        BY DEF Contents
      <3>3. o # plan.part
        BY <2>2, <3>1, <3>2, GoneDiffers
      <3>4. o >= plan.part + 1
        BY <2>1, <3>1, <3>3 DEF Partitions
      <3> QED BY <3>1, <3>4 DEF TornFrom
    <2>3. plan' \in Plan
      BY <1>1, <1>5, <2>1 DEF Plan
    <2>4. /\ plan'.stage = "own" /\ plan'.part = plan.part + 1 /\ plan'.next = plan.next
          /\ plan'.source = plan.source /\ plan'.whole = plan.whole
          /\ plan'.provider = plan.provider /\ plan'.rules = plan.rules
          /\ plan'.matches = plan.matches
      BY <1>1, <1>5 DEF Plan
    <2>5. MatchesInv'
      BY <1>1, <2>4 DEF RunningInv, MatchesInv
    <2>6. \/ Trial.whole \/ plan.source # Trial.snapshot
          \/ TornFrom(Trial.snapshot, contents[Trial.provider], plan.part + 1)
      BY <1>1, <1>2, <2>1, <2>2 DEF OwnInv
    <2>7. \/ Trial.provider # plan.provider \/ plan.whole
          \/ TornFrom(plan.source, contents[plan.provider], plan.part + 1)
      BY <1>1, <1>2, <2>1, <2>2 DEF OwnInv
    <2>8. OwnInv'
      BY <1>1, <2>1, <2>4, <2>6, <2>7 DEF OwnInv, Trial
    <2> QED BY <1>1, <2>3, <2>4, <2>5, <2>8, SameScan DEF PlanInv
  <1> QED BY <1>3, <1>4, <1>5 DEF CompareOwn

LEMMA OthersStep ==
  ASSUME IInv, \/ \E schema \in Schema : ListTables(schema)
               \/ \E name \in Name : LookUpOther(name)
               \/ CompareOther
  PROVE  PlanInv'
  <1>1. /\ UNCHANGED <<contents, created>> /\ RunningInv /\ plan \in Plan
        /\ plan.stage \in {"others", "other"} /\ OthersInv
        /\ plan.next \in DOMAIN plan.rules
    BY RunningTyped DEF ListTables, LookUpOther, CompareOther, table, RunningInv
  <1>2. CASE plan' = Rejected
    BY <1>1, <1>2, RejectedPlan DEF PlanInv
  <1>3. ASSUME plan' # Rejected
        PROVE  /\ plan' \in Plan /\ plan'.stage \in {"others", "other"}
               /\ plan'.next = plan.next /\ plan'.source = plan.source
               /\ plan'.whole = plan.whole /\ plan'.provider = plan.provider
               /\ plan'.rules = plan.rules /\ plan'.matches = plan.matches
    <2>1. plan.part + 1 \in Nat
      BY <1>1 DEF Plan
    <2>2. CASE plan' = [plan EXCEPT !.part = @ + 1]
      BY <1>1, <2>1, <2>2 DEF Plan
    <2>3. CASE plan' = [plan EXCEPT !.stage = "others"]
      BY <1>1, <2>3 DEF Plan
    <2>4. ASSUME NEW name \in Name, LookUpOther(name)
          PROVE  /\ plan' \in Plan /\ plan'.stage \in {"others", "other"}
                 /\ plan'.next = plan.next /\ plan'.source = plan.source
                 /\ plan'.whole = plan.whole /\ plan'.provider = plan.provider
                 /\ plan'.rules = plan.rules /\ plan'.matches = plan.matches
      <3>1. plan.names \ {name} \in SUBSET Name /\ catalog[name] \in Provider \cup {None}
        BY <1>1 DEF Plan, IInv, TableInv
      <3>2. CASE plan' = [plan EXCEPT !.names = @ \ {name}]
        BY <1>1, <3>1, <3>2 DEF Plan
      <3>3. CASE plan' = [plan EXCEPT !.names = @ \ {name}, !.stage = "other",
                                      !.other = catalog[name], !.part = 1]
        BY <1>1, <3>1, <3>3 DEF Plan
      <3> QED BY <1>3, <2>4, <3>2, <3>3 DEF LookUpOther
    <2>5. ASSUME NEW schema \in Schema, ListTables(schema)
          PROVE  /\ plan' \in Plan /\ plan'.stage \in {"others", "other"}
                 /\ plan'.next = plan.next /\ plan'.source = plan.source
                 /\ plan'.whole = plan.whole /\ plan'.provider = plan.provider
                 /\ plan'.rules = plan.rules /\ plan'.matches = plan.matches
      <3> DEFINE listed == {n \in schema : catalog[n] # None}
      <3>1. listed \in SUBSET Name
        BY ConstantsAssumption
      <3>2. plan.schemas \ {schema} \in SUBSET Schema /\ plan.stage = "others"
        BY <1>1, <2>5 DEF Plan, ListTables
      <3>3. plan' = [plan EXCEPT !.schemas = @ \ {schema}, !.names = listed]
        BY <1>3, <2>5 DEF ListTables
      <3> HIDE DEF listed
      <3> QED BY <1>1, <3>1, <3>2, <3>3 DEF Plan
    <2> QED BY <1>1, <1>3, <2>2, <2>3, <2>4, <2>5 DEF CompareOther
  <1>4. ASSUME plan' # Rejected PROVE MatchesInv' /\ OthersInv'
    BY <1>1, <1>3, <1>4 DEF RunningInv, MatchesInv, OthersInv, Trial
  <1> QED BY <1>1, <1>2, <1>3, <1>4, SameScan DEF PlanInv

LEMMA EndTrialInv == ASSUME IInv, EndTrial PROVE PlanInv'
  <1>1. /\ UNCHANGED <<contents, created>> /\ RunningInv /\ plan \in Plan
        /\ plan.stage = "others" /\ OthersInv
    BY RunningTyped DEF EndTrial, table, RunningInv
  <1>2. CASE plan' = Rejected
    BY <1>1, <1>2, RejectedPlan DEF PlanInv
  <1>3. CASE plan.source = Trial.snapshot /\ plan' = Accepted
    <2>1. plan.next + 1 \in Nat \ {0} /\ plan.matches \cup {plan.next} \in SUBSET Nat
      BY <1>1 DEF Plan
    <2>2. plan' = [plan EXCEPT !.stage = "rewrite", !.next = @ + 1, !.schemas = {},
                               !.names = {}, !.matches = @ \cup {plan.next}]
      BY <1>1, <1>3 DEF Accepted, Rejected, Plan
    <2>3. plan' \in Plan
      BY <1>1, <2>1, <2>2 DEF Plan
    <2>4. /\ plan'.stage = "rewrite" /\ plan'.source = plan.source
          /\ plan'.whole = plan.whole /\ plan'.provider = plan.provider
          /\ plan'.rules = plan.rules /\ plan'.matches = plan.matches \cup {plan.next}
      BY <1>1, <2>2 DEF Plan
    <2>5. MatchesInv'
      BY <1>1, <1>3, <2>4 DEF RunningInv, MatchesInv, OthersInv, Trial
    <2> QED BY <1>1, <2>3, <2>4, <2>5, SameScan DEF PlanInv
  <1> QED BY <1>2, <1>3 DEF EndTrial

LEMMA DecideInv == ASSUME IInv, Decide PROVE PlanInv'
  <1>1. /\ UNCHANGED <<contents, created>> /\ RunningInv /\ plan \in Plan
        /\ plan.stage = "rewrite" /\ plan' = [plan EXCEPT !.stage = "decided"]
    BY RunningTyped DEF Decide, table
  <1>2. plan' \in Plan
    BY <1>1 DEF Plan
  <1>3. /\ plan'.stage = "decided" /\ plan'.source = plan.source
        /\ plan'.whole = plan.whole /\ plan'.provider = plan.provider
        /\ plan'.rules = plan.rules /\ plan'.matches = plan.matches
    BY <1>1 DEF Plan
  <1>4. MatchesInv'
    BY <1>1, <1>3 DEF RunningInv, MatchesInv
  <1> QED BY <1>1, <1>2, <1>3, <1>4, SameScan DEF PlanInv

LEMMA PlanningInv ==
  ASSUME IInv, \/ \E name \in Name, c \in Column : BeginPlan(name, c)
               \/ Planning
               \/ EndPlan
  PROVE  IInv'
  <1>1. UNCHANGED <<catalog, contents, locked, created, attach, attachments>>
    BY DEF BeginPlan, Planning, ScanPartition, EndScan, Optimize, TryAttachment, CompareOwn,
           CompareOther, EndTrial, Decide, ListTables, LookUpOther, EndPlan, table
  <1>2. TableInv' /\ AttachInv'
    BY <1>1, CopiesKept DEF IInv, TableInv
  <1>3. PlanInv'
    <2>1. CASE EndPlan
      BY <2>1 DEF EndPlan, PlanInv
    <2> QED BY <2>1, BeginPlanInv, ScanInvStep, TryInv, CompareOwnInv, OthersStep,
      EndTrialInv, DecideInv DEF Planning, Optimize
  <1> QED BY <1>2, <1>3 DEF IInv

LEMMA NextInv == IInv /\ [Next]_vars => IInv'
  <1> SUFFICES ASSUME IInv, [Next]_vars PROVE IInv'
    OBVIOUS
  <1>1. CASE UNCHANGED vars
    BY <1>1, CopiesKept DEF vars, table, IInv, TableInv
  <1>2. ASSUME NEW p \in Provider, NEW part \in Partitions,
               StartWrite(p, part) \/ EndWrite(p, part)
        PROVE  IInv'
    BY <1>2, StartWriteInv, EndWriteInv
  <1>3. CASE \/ \E name \in Name : Deregister(name)
             \/ \E name \in Name, p \in Provider : Register(name, p)
    BY <1>3, RegistryInv
  <1>4. CASE \/ \E name \in Name, p \in Provider, c \in Column : BeginAttach(name, p, c)
             \/ Attaching
    BY <1>4, AttachingInv
  <1>5. CASE \/ \E name \in Name, c \in Column : BeginPlan(name, c)
             \/ Planning \/ EndPlan
    BY <1>5, PlanningInv
  <1>6. CASE Environment
    BY <1>2, <1>3, <1>6 DEF Environment
  <1>7. CASE \E p \in Provider, part \in Partitions : EndWrite(p, part)
    BY <1>2, <1>7
  <1>8. \/ UNCHANGED vars
        \/ Environment
        \/ \E p \in Provider, part \in Partitions : EndWrite(p, part)
        \/ \E name \in Name, p \in Provider, c \in Column : BeginAttach(name, p, c)
        \/ Attaching
        \/ \E name \in Name, c \in Column : BeginPlan(name, c)
        \/ Planning
        \/ EndPlan
    BY DEF Next
  <1>9. CASE \E name \in Name, p \in Provider, c \in Column : BeginAttach(name, p, c)
    BY <1>4, <1>9
  <1>10. CASE \E name \in Name, c \in Column : BeginPlan(name, c)
    BY <1>5, <1>10
  <1>11. CASE Attaching
    BY <1>4, <1>11
  <1>12. CASE Planning
    BY <1>5, <1>12
  <1>13. CASE EndPlan
    BY <1>5, <1>13
  <1> QED BY <1>1, <1>6, <1>7, <1>8, <1>9, <1>10, <1>11, <1>12, <1>13

LEMMA Invariant == Spec => []IInv
  BY InitInv, NextInv, PTL DEF Spec

-----------------------------------------------------------------------------
(* The types; and no index is built on nothing                             *)
(* (vector-db/datafusion/src/attachment.rs:119-255).                       *)
THEOREM TypeCorrect == Spec => []TypeOK
  <1>1. ASSUME IInv PROVE TypeOK
    <2>1. /\ created \in Batch /\ locked \subseteq Provider \X Partitions
          /\ catalog \in [Name -> Provider \cup {None}]
          /\ contents \in [Provider -> Contents]
      BY <1>1, FS_CardinalityType, ConstantsAssumption DEF IInv, TableInv, Batch
    <2>2. attach.stage \in {"idle", "read"}
      BY <1>1 DEF IInv, AttachInv, Reading, Idle
    <2>3. plan.stage \in {"idle", "scan", "rewrite", "own", "others", "other", "decided"}
      BY <1>1 DEF IInv, PlanInv, RunningInv, Plan, Idle
    <2>4. \A i \in DOMAIN attachments :
            attachments[i] \in Attachment /\ attachments[i].snapshot # Empty
      BY <1>1 DEF IInv, AttachInv
    <2> QED BY <2>1, <2>2, <2>3, <2>4 DEF TypeOK, Attachment
  <1> QED BY <1>1, Invariant, PTL

(* The attachment a rewritten plan is answered by is one that matched.     *)
LEMMA ServerMatched ==
  ASSUME IInv, Rewritten
  PROVE  RunningInv /\ \E i \in plan.matches : Server = plan.rules[i]
  <1>1. RunningInv
    BY RunningTyped DEF Rewritten
  <1>2. plan.matches # {}
    BY FS_EmptySet DEF Rewritten
  <1> QED BY <1>1, <1>2 DEF Server

(* An index answers with the rows the query's own scan captured, whatever  *)
(* other tasks did meanwhile (optimizer.rs:94-151, attachment.rs:272-338). *)
THEOREM ServesScanned == Spec => []ServesScannedRows
  <1>1. IInv => ServesScannedRows
    BY ServerMatched DEF ServesScannedRows, RunningInv, MatchesInv
  <1> QED BY <1>1, Invariant, PTL

(* No index shows a mixture of two states of a table, although neither the *)
(* snapshot nor the scan is taken under a lock over the whole of it        *)
(* (attachment.rs:139-142, 340-377).                                       *)
THEOREM NeverTorn == Spec => []NeverServesTornRead
  <1>1. IInv => NeverServesTornRead
    BY ServerMatched DEF NeverServesTornRead, RunningInv, MatchesInv
  <1> QED BY <1>1, Invariant, PTL
=============================================================================
