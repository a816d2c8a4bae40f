--------------------------- MODULE AuditLogProofs ----------------------------
(***************************************************************************)
(* Theorems about AuditLog: for logs, pages and walks of every length.     *)
(***************************************************************************)
EXTENDS AuditLog, SequenceTheorems, TLAPS

-----------------------------------------------------------------------------
(* The slices *)

(* d holds n entries of s: those after position a, or those before it,     *)
(* newest first.                                                           *)
Ascends(S, s, d, a, n) ==
  /\ d \in Seq(S)
  /\ Len(d) = n
  /\ \A i \in 1 .. n : d[i] = s[a + i]
Descends(S, s, d, a, n) ==
  /\ d \in Seq(S)
  /\ Len(d) = n
  /\ \A i \in 1 .. n : d[i] = s[a + 1 - i]

(* The number of entries of a page of at most l of them, with m left.      *)
PageSize(l, m) == Greatest(Least(l, m), 0)

LEMMA SliceLength ==
  ASSUME NEW a \in Nat, NEW b \in Nat, NEW n \in Nat
  PROVE  /\ Greatest(Least(b, n) - Least(a, n), 0) \in Nat
         /\ a >= n \/ a >= b => Greatest(Least(b, n) - Least(a, n), 0) = 0
         /\ a < n /\ a < b =>
              Greatest(Least(b, n) - Least(a, n), 0) = Least(b, n) - a
<1>1. Least(a, n) = IF a < n THEN a ELSE n
  BY DEF Least
<1>2. Least(b, n) = IF b < n THEN b ELSE n
  BY DEF Least
<1>3. Least(a, n) \in Nat /\ Least(b, n) \in Nat
  BY <1>1, <1>2
<1>4. Greatest(Least(b, n) - Least(a, n), 0) =
        IF Least(b, n) - Least(a, n) > 0 THEN Least(b, n) - Least(a, n) ELSE 0
  BY DEF Greatest
<1>5. QED
  BY <1>1, <1>2, <1>3, <1>4

LEMMA PageLength ==
  ASSUME NEW S, NEW s \in Seq(S), NEW o \in Nat, NEW l \in Nat \ {0}
  PROVE  Greatest(Least(o + l, Len(s)) - Least(o, Len(s)), 0) =
           Greatest(Least(l, Len(s) - o), 0)
<1> DEFINE n == Len(s)
<1>1. n \in Nat /\ o + l \in Nat /\ o < o + l
  OBVIOUS
<1> HIDE DEF n
<1>2. CASE o >= n
  <2>1. Greatest(Least(l, n - o), 0) = 0
    BY <1>1, <1>2 DEF Greatest, Least
  <2>2. QED
    BY <1>1, <1>2, <2>1, SliceLength DEF n
<1>3. CASE o < n
  <2>1. Greatest(Least(o + l, n) - Least(o, n), 0) = Least(o + l, n) - o
    BY <1>1, <1>3, SliceLength
  <2>2. Least(o + l, n) - o = Least(l, n - o)
    BY <1>1, <1>3 DEF Least
  <2>3. Least(l, n - o) > 0 /\ Least(l, n - o) \in Int
    BY <1>1, <1>3 DEF Least
  <2>4. QED
    BY <2>1, <2>2, <2>3 DEF Greatest, n
<1>4. QED
  BY <1>1, <1>2, <1>3

LEMMA FunctionAscends ==
  ASSUME NEW S, NEW s \in Seq(S), NEW a \in Nat, NEW n \in Nat,
         n > 0 => a + n <= Len(s)
  PROVE  Ascends(S, s, [i \in 1 .. n |-> s[a + i]], a, n)
<1> DEFINE d == [i \in 1 .. n |-> s[a + i]]
<1>1. ASSUME NEW i \in 1 .. n PROVE s[a + i] \in S
  <2>1. a + i \in 1 .. Len(s)
    OBVIOUS
  <2>2. QED
    BY <2>1, ElementOfSeq
<1>2. d \in Seq(S)
  BY <1>1, IsASeq
<1>3. Len(d) = n
  OBVIOUS
<1>4. QED
  BY <1>2, <1>3 DEF Ascends

LEMMA LRangeAscends ==
  ASSUME NEW S, NEW s \in Seq(S), NEW a \in Nat, NEW n \in Nat \ {0},
         a + n <= Len(s)
  PROVE  Ascends(S, s, LRange(s, a, a + n - 1), a, n)
<1>1. Len(s) \in Nat /\ a + n - 1 <= Len(s) - 1
  OBVIOUS
<1>2. Least(a + n - 1, Len(s) - 1) = a + n - 1
  BY <1>1 DEF Least
<1>3. Greatest(Least(a + n - 1, Len(s) - 1) - a + 1, 0) = n
  BY <1>2 DEF Greatest
<1>4. LRange(s, a, a + n - 1) = [i \in 1 .. n |-> s[a + i]]
  BY <1>3 DEF LRange
<1>5. QED
  BY <1>4, FunctionAscends

(* Redis cuts a range that is too long.                                    *)
LEMMA LRangeCut ==
  ASSUME NEW S, NEW s \in Seq(S), NEW a \in Nat, NEW b \in Nat,
         Len(s) - 1 < b, a < Len(s)
  PROVE  LRange(s, a, b) = LRange(s, a, Len(s) - 1)
<1>1. Least(b, Len(s) - 1) = Len(s) - 1
  BY DEF Least
<1>2. Least(Len(s) - 1, Len(s) - 1) = Len(s) - 1
  BY DEF Least
<1>3. QED
  BY <1>1, <1>2 DEF LRange

LEMMA ReversedDescends ==
  ASSUME NEW S, NEW s, NEW e, NEW a \in Nat, NEW n \in Nat,
         Ascends(S, s, e, a, n)
  PROVE  Descends(S, s, Reversed(e), a + n, n)
<1> DEFINE d == [i \in 1 .. n |-> e[n + 1 - i]]
<1>1. e \in Seq(S) /\ Len(e) = n /\ \A i \in 1 .. n : e[i] = s[a + i]
  BY DEF Ascends
<1>2. Reversed(e) = d
  BY <1>1 DEF Reversed
<1>3. ASSUME NEW i \in 1 .. n
      PROVE  e[n + 1 - i] \in S /\ e[n + 1 - i] = s[a + n + 1 - i]
  <2>1. n + 1 - i \in 1 .. n /\ a + (n + 1 - i) = a + n + 1 - i
    OBVIOUS
  <2>2. QED
    BY <1>1, <2>1, ElementOfSeq
<1>4. d \in Seq(S)
  BY <1>3, IsASeq
<1>5. Len(d) = n /\ \A i \in 1 .. n : d[i] = s[a + n + 1 - i]
  BY <1>3
<1>6. QED
  BY <1>2, <1>4, <1>5 DEF Descends

LEMMA EmptyPage ==
  ASSUME NEW S, NEW s, NEW a
  PROVE  Ascends(S, s, <<>>, a, 0) /\ Descends(S, s, <<>>, a, 0)
  BY DEF Ascends, Descends

LEMMA PageSizes ==
  ASSUME NEW l \in Nat \ {0}, NEW m \in Int
  PROVE  /\ PageSize(l, m) \in Nat
         /\ m <= 0 => PageSize(l, m) = 0
         /\ 0 < m /\ m <= l => PageSize(l, m) = m
         /\ l <= m => PageSize(l, m) = l
  BY DEF PageSize, Greatest, Least

(* A newest-first page of a list whose length was n some time ago.         *)
LEMMA DescItems ==
  ASSUME NEW S, NEW s \in Seq(S), NEW n \in Nat, n <= Len(s),
         NEW o \in Nat, NEW l \in Nat \ {0}
  PROVE  Descends(S, s, RawItems(s, n, o, l, TRUE), n - o, PageSize(l, n - o))
<1> DEFINE d == RawItems(s, n, o, l, TRUE)
<1>1. CASE n = 0 \/ o >= n
  <2>1. d = <<>>
    BY <1>1 DEF RawItems
  <2>2. PageSize(l, n - o) = 0
    BY <1>1 DEF PageSize, Greatest, Least
  <2>3. QED
    BY <2>1, <2>2, EmptyPage
<1>2. CASE ~(n = 0 \/ o >= n)
  <2> DEFINE k == IF l <= n - o THEN l ELSE n - o
             stop == Greatest(n - 1 - o - l + 1, 0)
  <2>1. /\ Len(s) \in Nat /\ k \in Nat \ {0} /\ stop \in Nat
        /\ stop + k = n - o
        /\ stop + k - 1 = n - 1 - o
        /\ stop + k <= Len(s)
    BY <1>2 DEF Greatest
  <2>2. PageSize(l, n - o) = k
    BY <1>2 DEF PageSize, Greatest, Least
  <2>3. d = Reversed(LRange(s, stop, n - 1 - o))
    BY <1>2 DEF RawItems
  <2> HIDE DEF k, stop, d
  <2>4. Ascends(S, s, LRange(s, stop, stop + k - 1), stop, k)
    BY <2>1, LRangeAscends
  <2>5. Descends(S, s, Reversed(LRange(s, stop, stop + k - 1)), stop + k, k)
    BY <2>1, <2>4, ReversedDescends
  <2>6. QED
    BY <2>1, <2>2, <2>3, <2>5 DEF d
<1>3. QED
  BY <1>1, <1>2

(* An oldest-first page.                                                   *)
LEMMA AscItems ==
  ASSUME NEW S, NEW s \in Seq(S), NEW n \in Nat, n <= Len(s),
         NEW o \in Nat, NEW l \in Nat \ {0}
  PROVE  Ascends(S, s, RawItems(s, n, o, l, FALSE), o,
                 IF o >= n THEN 0 ELSE PageSize(l, Len(s) - o))
<1> DEFINE d == RawItems(s, n, o, l, FALSE)
<1>1. CASE o >= n
  <2>1. d = <<>>
    BY <1>1 DEF RawItems
  <2>2. QED
    BY <1>1, <2>1, EmptyPage
<1>2. CASE ~(o >= n)
  <2> DEFINE k == IF l <= Len(s) - o THEN l ELSE Len(s) - o
  <2>1. /\ Len(s) \in Nat /\ k \in Nat \ {0} /\ o + k <= Len(s)
    BY <1>2
  <2>2. PageSize(l, Len(s) - o) = k
    BY <1>2 DEF PageSize, Greatest, Least
  <2>3. d = LRange(s, o, o + l - 1)
    BY <1>2 DEF RawItems
  <2>4. LRange(s, o, o + l - 1) = LRange(s, o, o + k - 1)
    <3>1. CASE l <= Len(s) - o
      BY <3>1
    <3>2. CASE ~(l <= Len(s) - o)
      <4>1. o + k - 1 = Len(s) - 1 /\ o + l - 1 \in Nat
            /\ Len(s) - 1 < o + l - 1 /\ o < Len(s)
        BY <1>2, <2>1, <3>2
      <4> HIDE DEF k
      <4>2. QED
        BY <4>1, LRangeCut
    <3>3. QED
      BY <3>1, <3>2
  <2> HIDE DEF k, d
  <2>5. Ascends(S, s, LRange(s, o, o + k - 1), o, k)
    BY <2>1, LRangeAscends
  <2>6. QED
    BY <1>2, <2>2, <2>3, <2>4, <2>5 DEF d
<1>3. QED
  BY <1>1, <1>2

LEMMA PySliceAscends ==
  ASSUME NEW S, NEW s \in Seq(S), NEW o \in Nat, NEW l \in Nat \ {0}
  PROVE  Ascends(S, s, PySlice(s, o, o + l), o, PageSize(l, Len(s) - o))
<1> DEFINE n == Greatest(Least(o + l, Len(s)) - Least(o, Len(s)), 0)
<1>1. Len(s) \in Nat /\ o + l \in Nat
  OBVIOUS
<1>2. /\ Least(o, Len(s)) = IF o < Len(s) THEN o ELSE Len(s)
      /\ Least(o + l, Len(s)) = IF o + l < Len(s) THEN o + l ELSE Len(s)
  BY DEF Least
<1>3. n = IF Least(o + l, Len(s)) - Least(o, Len(s)) > 0
          THEN Least(o + l, Len(s)) - Least(o, Len(s)) ELSE 0
  BY DEF Greatest
<1>4. n = IF o >= Len(s) THEN 0 ELSE IF l <= Len(s) - o THEN l ELSE Len(s) - o
  BY <1>1, <1>2, <1>3
<1>5. n = PageSize(l, Len(s) - o)
  <2>1. PageSize(l, Len(s) - o) =
          IF o >= Len(s) THEN 0 ELSE IF l <= Len(s) - o THEN l ELSE Len(s) - o
    BY <1>1 DEF PageSize, Greatest, Least
  <2>2. QED
    BY <1>4, <2>1
<1>6. PySlice(s, o, o + l) = [i \in 1 .. n |-> s[o + i]]
  BY DEF PySlice
<1>7. n \in Nat /\ (n > 0 => o + n <= Len(s))
  BY <1>1, <1>4
<1> HIDE DEF n
<1>8. QED
  BY <1>5, <1>6, <1>7, FunctionAscends

LEMMA MemoryDescItems ==
  ASSUME NEW S, NEW s \in Seq(S), NEW o \in Nat, NEW l \in Nat \ {0}
  PROVE  Descends(S, s, MemoryItems(s, o, l, TRUE), Len(s) - o,
                  PageSize(l, Len(s) - o))
<1> DEFINE e == Reversed(s)
           d == PySlice(e, o, o + l)
           n == PageSize(l, Len(s) - o)
<1>1. Len(s) \in Nat /\ Ascends(S, s, s, 0, Len(s))
  BY DEF Ascends
<1>2. Descends(S, s, e, 0 + Len(s), Len(s))
  BY <1>1, ReversedDescends
<1>3. /\ e \in Seq(S) /\ Len(e) = Len(s)
      /\ \A i \in 1 .. Len(s) : e[i] = s[Len(s) + 1 - i]
  BY <1>1, <1>2 DEF Descends
<1>4. MemoryItems(s, o, l, TRUE) = d
  BY DEF MemoryItems
<1> HIDE DEF e
<1>5. Ascends(S, e, d, o, n)
  BY <1>3, PySliceAscends
<1> HIDE DEF d
<1>6. n \in Nat /\ (n > 0 => o + n <= Len(s))
  <2>1. CASE Len(s) - o <= 0
    BY <1>1, <2>1 DEF PageSize, Greatest, Least
  <2>2. CASE 0 < Len(s) - o /\ Len(s) - o <= l
    BY <1>1, <2>2 DEF PageSize, Greatest, Least
  <2>3. CASE 0 < Len(s) - o /\ l < Len(s) - o
    BY <1>1, <2>3 DEF PageSize, Greatest, Least
  <2>4. QED
    BY <1>1, <2>1, <2>2, <2>3
<1> HIDE DEF n
<1>7. ASSUME NEW i \in 1 .. n PROVE d[i] = s[Len(s) - o + 1 - i]
  <2>1. o + i \in 1 .. Len(s) /\ Len(s) + 1 - (o + i) = Len(s) - o + 1 - i
    BY <1>1, <1>6
  <2>2. d[i] = e[o + i]
    BY <1>5 DEF Ascends
  <2>3. QED
    BY <1>3, <2>1, <2>2
<1>8. QED
  BY <1>4, <1>5, <1>7 DEF Ascends, Descends, n

LEMMA AscendsUnique ==
  ASSUME NEW S, NEW s, NEW a, NEW n, NEW c, NEW d,
         Ascends(S, s, c, a, n), Ascends(S, s, d, a, n)
  PROVE  c = d
<1>1. /\ c \in Seq(S) /\ d \in Seq(S) /\ Len(c) = Len(d)
      /\ \A i \in 1 .. Len(c) : c[i] = d[i]
  BY DEF Ascends
<1>2. QED
  BY <1>1, SeqEqual

LEMMA DescendsUnique ==
  ASSUME NEW S, NEW s, NEW a, NEW n, NEW c, NEW d,
         Descends(S, s, c, a, n), Descends(S, s, d, a, n)
  PROVE  c = d
<1>1. /\ c \in Seq(S) /\ d \in Seq(S) /\ Len(c) = Len(d)
      /\ \A i \in 1 .. Len(c) : c[i] = d[i]
  BY DEF Descends
<1>2. QED
  BY <1>1, SeqEqual

(* On a list that nobody appends to, the Redis queue and the in-memory     *)
(* queue of the tests return the same page, whatever the offset, the limit *)
(* and the order.  (redis/event_queue.py:50-78)                            *)
THEOREM QueuesAgree ==
  ASSUME NEW S, NEW s \in Seq(S), NEW o \in Nat, NEW l \in Nat \ {0},
         NEW desc \in BOOLEAN
  PROVE  RawItems(s, Len(s), o, l, desc) = MemoryItems(s, o, l, desc)
<1> DEFINE n == Len(s)
<1>1. n \in Nat /\ n <= Len(s)
  OBVIOUS
<1> HIDE DEF n
<1>2. CASE desc = TRUE
  <2>0. Descends(S, s, RawItems(s, n, o, l, TRUE), n - o, PageSize(l, n - o))
    BY <1>1, DescItems
  <2>1. Descends(S, s, RawItems(s, Len(s), o, l, TRUE), Len(s) - o,
                 PageSize(l, Len(s) - o))
    BY <2>0 DEF n
  <2>2. QED
    BY <1>2, <2>1, MemoryDescItems, DescendsUnique
<1>3. CASE desc = FALSE
  <2>0. Ascends(S, s, RawItems(s, n, o, l, FALSE), o,
                IF o >= n THEN 0 ELSE PageSize(l, Len(s) - o))
    BY <1>1, AscItems
  <2>1. Ascends(S, s, RawItems(s, Len(s), o, l, FALSE), o,
                IF o >= Len(s) THEN 0 ELSE PageSize(l, Len(s) - o))
    BY <2>0 DEF n
  <2>2. o >= Len(s) => PageSize(l, Len(s) - o) = 0
    BY <1>1 DEF n, PageSize, Greatest, Least
  <2>3. MemoryItems(s, o, l, FALSE) = PySlice(s, o, o + l)
    BY DEF MemoryItems
  <2>4. Ascends(S, s, MemoryItems(s, o, l, FALSE), o, PageSize(l, Len(s) - o))
    BY <2>3, PySliceAscends
  <2>5. QED
    BY <1>3, <2>1, <2>2, <2>4, AscendsUnique
<1>4. QED
  BY <1>2, <1>3

-----------------------------------------------------------------------------
(* The invariant *)

(* The pages of the walk that a reader has read, and the length of the log *)
(* that its next command goes by.                                          *)
PagesRead(r) == IF probing[r] THEN page[r] ELSE page[r] - 1
Base(r) == IF step[r] = "lrange" THEN total[r] ELSE Len(log)

(* The length that LLEN gave lies between that of the log at the start of  *)
(* the walk and that of the log now.                                       *)
LengthBounds(r) ==
  /\ origin[r] \in 0 .. Len(log)
  /\ step[r] = "lrange" => total[r] \in origin[r] .. Len(log)

(* There are entries beyond those read, on a page reached by a link and on *)
(* one that has a link.                                                    *)
Linked(r) ==
  /\ ~probing[r] /\ page[r] > 1 => Base(r) > PagesRead(r) * PerPage
  /\ step[r] = "shown" =>
       /\ probing[r]
       /\ hasNext[r] => Base(r) > PagesRead(r) * PerPage

Filled(r) == probing[r] /\ page[r] > 1 => items[r] # <<>>

Snapshot(r, n) ==
  items[r] = MemoryItems(SubSeq(log, 1, n), Offset(r), PerPage, TRUE)
Snapshots(r) ==
  probing[r] => \E n \in origin[r] .. Len(log) : Snapshot(r, n)

ReaderInv(r) ==
  LengthBounds(r) /\ Linked(r) /\ Filled(r) /\ Snapshots(r)

IInv == TypeOK /\ \A r \in Readers : ReaderInv(r)

(* A step of another reader does not concern a reader.                     *)
Unchanged(r) ==
  /\ log' = log
  /\ step'[r] = step[r]
  /\ page'[r] = page[r]
  /\ probing'[r] = probing[r]
  /\ total'[r] = total[r]
  /\ items'[r] = items[r]
  /\ hasNext'[r] = hasNext[r]
  /\ walked'[r] = walked[r]
  /\ origin'[r] = origin[r]

LEMMA OthersKeep ==
  ASSUME NEW r, ReaderInv(r), Unchanged(r)
  PROVE  ReaderInv(r)'
<1>1. Base(r)' = Base(r) /\ PagesRead(r)' = PagesRead(r)
      /\ Offset(r)' = Offset(r)
  BY DEF Unchanged, Base, PagesRead, Offset
<1>2. LengthBounds(r)' /\ Linked(r)' /\ Filled(r)'
  BY <1>1 DEF Unchanged, ReaderInv, LengthBounds, Linked, Filled
<1>3. Snapshots(r)'
  BY <1>1 DEF Unchanged, ReaderInv, Snapshots, Snapshot
<1>4. QED
  BY <1>2, <1>3 DEF ReaderInv

(* A step of reader r leaves the invariant if it leaves it for r.          *)
LEMMA StepOfReader ==
  ASSUME IInv, NEW r \in Readers, TypeOK', ReaderInv(r)',
         \A q \in Readers \ {r} : Unchanged(q)
  PROVE  IInv'
<1>1. ASSUME NEW q \in Readers PROVE ReaderInv(q)'
  <2>1. CASE q = r
    BY <2>1
  <2>2. CASE q # r
    <3>1. ReaderInv(q) /\ Unchanged(q)
      BY <2>2 DEF IInv
    <3>2. QED
      BY <3>1, OthersKeep
  <2>3. QED
    BY <2>1, <2>2
<1>2. QED
  BY <1>1 DEF IInv

LEMMA Constants == PerPage \in Nat \ {0} /\ MaxLog \in Nat /\ Older \in Seq(Entries)
                   /\ \A i \in 1 .. Len(Older) : Older[i].at = i
  BY AuditLogAssumption

LEMMA Multiples ==
  ASSUME NEW m \in Nat
  PROVE  m * PerPage \in Nat /\ (m + 1) * PerPage = m * PerPage + PerPage
  BY Constants

(* The entries that the pages read so far hold.                            *)
LEMMA Offsets ==
  ASSUME TypeOK, NEW r \in Readers
  PROVE  /\ Offset(r) \in Nat
         /\ PagesRead(r) * PerPage =
              IF probing[r] THEN Offset(r) + PerPage ELSE Offset(r)
<1> DEFINE m == page[r] - 1
<1>1. m \in Nat /\ page[r] = m + 1 /\ probing[r] \in BOOLEAN
  BY DEF TypeOK
<1>2. Offset(r) = m * PerPage
      /\ PagesRead(r) = IF probing[r] THEN m + 1 ELSE m
  BY <1>1 DEF Offset, PagesRead
<1> HIDE DEF m
<1>3. QED
  BY <1>1, <1>2, Multiples

LEMMA InitInv == Init => IInv
<1> SUFFICES ASSUME Init PROVE IInv
  OBVIOUS
<1>1. TypeOK
  BY Constants DEF Init, TypeOK
<1>2. ASSUME NEW r \in Readers PROVE ReaderInv(r)
  <2>1. Len(log) \in Nat /\ origin[r] = 0 /\ ~probing[r] /\ page[r] = 1
        /\ step[r] = "closed"
    BY Constants DEF Init
  <2>2. QED
    BY <2>1 DEF ReaderInv, LengthBounds, Linked, Filled, Snapshots
<1>3. QED
  BY <1>1, <1>2 DEF IInv

(* What a push does to the list.                                           *)
LEMMA Pushes ==
  ASSUME TypeOK, NEW type, log' = Pushed(type)
  PROVE  /\ log' \in Seq(Entries)
         /\ Len(log') \in Nat /\ Len(log) \in Nat /\ Len(log') >= Len(log)
         /\ \A i \in 1 .. Len(log) : log'[i] = log[i]
         /\ \A i \in 1 .. Len(log') :
              log'[i].at = i /\ (i > Len(log) => log'[i].type \in DomainEvents)
<1>1. log \in Seq(Entries) /\ Len(log) \in Nat
      /\ \A i \in 1 .. Len(log) : log[i].at = i
  BY DEF TypeOK
<1>2. CASE type \in DomainEvents
  <2> DEFINE e == [type |-> type, at |-> Len(log) + 1]
  <2>1. e \in Entries /\ e.at = Len(log) + 1 /\ e.type \in DomainEvents
    BY <1>1, <1>2 DEF Entries, Types
  <2>2. log' = Append(log, e)
    BY <1>2 DEF Pushed
  <2> HIDE DEF e
  <2>3. /\ log' \in Seq(Entries) /\ Len(log') = Len(log) + 1
        /\ \A i \in 1 .. Len(log) : log'[i] = log[i]
        /\ log'[Len(log) + 1] = e
    BY <1>1, <2>1, <2>2, AppendProperties
  <2>4. ASSUME NEW i \in 1 .. Len(log')
        PROVE  log'[i].at = i /\ (i > Len(log) => log'[i].type \in DomainEvents)
    <3>1. CASE i \in 1 .. Len(log)
      BY <1>1, <2>3, <3>1
    <3>2. CASE i = Len(log) + 1
      BY <1>1, <2>1, <2>3, <3>2
    <3>3. QED
      BY <1>1, <2>3, <3>1, <3>2
  <2>5. QED
    BY <1>1, <2>3, <2>4
<1>3. CASE type \notin DomainEvents
  <2>1. log' = log
    BY <1>3 DEF Pushed
  <2>2. QED
    BY <1>1, <2>1
<1>4. QED
  BY <1>2, <1>3

LEMMA PushKeeps ==
  ASSUME IInv, NEW type, Push(type)
  PROVE  IInv'
<1>1. log' = Pushed(type) /\ UNCHANGED readerVars /\ TypeOK
  BY DEF Push, IInv
<1>2. /\ log' \in Seq(Entries) /\ log \in Seq(Entries)
      /\ Len(log') \in Nat /\ Len(log) \in Nat /\ Len(log') >= Len(log)
      /\ \A i \in 1 .. Len(log) : log'[i] = log[i]
      /\ \A i \in 1 .. Len(log') : log'[i].at = i
  BY <1>1, Pushes DEF TypeOK
<1>3. TypeOK'
  BY <1>1, <1>2 DEF TypeOK, readerVars
<1>4. ASSUME NEW r \in Readers PROVE ReaderInv(r)'
  <2>1. ReaderInv(r) /\ PagesRead(r)' = PagesRead(r) /\ Offset(r)' = Offset(r)
    BY <1>1 DEF IInv, readerVars, PagesRead, Offset
  <2>2. /\ origin[r] \in Nat /\ total[r] \in Nat
        /\ page[r] \in Nat \ {0} /\ probing[r] \in BOOLEAN
    BY <1>1 DEF TypeOK
  <2>3. Base(r)' \in Nat /\ Base(r) \in Nat /\ Base(r)' >= Base(r)
    BY <1>1, <1>2, <2>2 DEF Base, readerVars
  <2>4. LengthBounds(r)'
    BY <1>1, <1>2, <2>1, <2>2 DEF ReaderInv, LengthBounds, readerVars
  <2>5. Linked(r)'
    <3> DEFINE k == PagesRead(r) * PerPage
    <3>1. k \in Nat
      BY <1>1, <2>2, Offsets, Constants
    <3>2. k' = k
      BY <2>1
    <3>3. Base(r) > k => Base(r)' > k
      BY <2>3, <3>1
    <3>4. QED
      BY <1>1, <2>1, <3>2, <3>3 DEF ReaderInv, Linked, readerVars
  <2>6. Filled(r)'
    BY <1>1, <2>1 DEF ReaderInv, Filled, readerVars
  <2>7. Snapshots(r)'
    <3> SUFFICES ASSUME probing[r]
                 PROVE  \E n \in origin[r] .. Len(log') : Snapshot(r, n)'
      BY <1>1 DEF Snapshots, readerVars
    <3>1. PICK n \in origin[r] .. Len(log) : Snapshot(r, n)
      BY <2>1 DEF ReaderInv, Snapshots
    <3>2. n \in Nat /\ n <= Len(log) /\ n \in origin[r] .. Len(log')
      BY <1>2, <2>2, <3>1
    <3>3. SubSeq(log', 1, n) = SubSeq(log, 1, n)
      <4>1. /\ SubSeq(log', 1, n) = [i \in 1 .. n |-> log'[i]]
            /\ SubSeq(log, 1, n) = [i \in 1 .. n |-> log[i]]
        BY <1>2, <3>2
      <4>2. \A i \in 1 .. n : log'[i] = log[i]
        BY <1>2, <3>2
      <4>3. QED
        BY <4>1, <4>2
    <3>4. Snapshot(r, n)'
      BY <1>1, <2>1, <3>1, <3>3 DEF Snapshot, readerVars
    <3>5. QED
      BY <3>2, <3>4
  <2>8. QED
    BY <2>4, <2>5, <2>6, <2>7 DEF ReaderInv
<1>5. QED
  BY <1>3, <1>4 DEF IInv

(* A page of the list as it was when LLEN answered is that of a snapshot.  *)
LEMMA PageOfSnapshot ==
  ASSUME NEW S, NEW s \in Seq(S), NEW n \in Nat, n <= Len(s),
         NEW o \in Nat, NEW l \in Nat \ {0}
  PROVE  RawItems(s, n, o, l, TRUE) = MemoryItems(SubSeq(s, 1, n), o, l, TRUE)
<1> DEFINE c == SubSeq(s, 1, n)
           d == MemoryItems(c, o, l, TRUE)
           k == PageSize(l, n - o)
<1>1. c \in Seq(S) /\ Len(c) = n /\ \A i \in 1 .. n : c[i] = s[i]
  OBVIOUS
<1> HIDE DEF c
<1>2. Descends(S, c, d, Len(c) - o, PageSize(l, Len(c) - o))
  BY <1>1, MemoryDescItems
<1>3. k \in Nat /\ k <= n
  BY DEF PageSize, Greatest, Least
<1>4. k > 0 => k <= n - o
  BY DEF PageSize, Greatest, Least
<1> HIDE DEF d, k
<1>5. d \in Seq(S) /\ Len(d) = k /\ \A i \in 1 .. k : d[i] = c[n - o + 1 - i]
  BY <1>1, <1>2 DEF Descends, k
<1>6. \A i \in 1 .. k : d[i] = s[n - o + 1 - i]
  BY <1>1, <1>3, <1>4, <1>5
<1>7. Descends(S, s, d, n - o, k)
  BY <1>5, <1>6 DEF Descends
<1>8. Descends(S, s, RawItems(s, n, o, l, TRUE), n - o, k)
  BY DescItems DEF k
<1>9. QED
  BY <1>7, <1>8, DescendsUnique DEF d, c

LEMMA OpenFirstKeeps ==
  ASSUME IInv, NEW r \in Readers, OpenFirst(r)
  PROVE  IInv'
<1>1. TypeOK /\ Len(log) \in Nat
  BY DEF IInv, TypeOK
<1>2. TypeOK'
  BY <1>1 DEF TypeOK, OpenFirst, Request
<1>3. /\ log' = log /\ origin'[r] = Len(log) /\ step'[r] = "llen"
      /\ page'[r] = 1 /\ probing'[r] = FALSE
  BY <1>1 DEF TypeOK, OpenFirst, Request
<1>4. ReaderInv(r)'
  BY <1>1, <1>3 DEF ReaderInv, LengthBounds, Linked, Filled, Snapshots
<1>5. \A q \in Readers \ {r} : Unchanged(q)
  BY <1>1 DEF TypeOK, OpenFirst, Request, Unchanged
<1>6. QED
  BY <1>2, <1>4, <1>5, StepOfReader

LEMMA LeaveKeeps ==
  ASSUME IInv, NEW r \in Readers, Leave(r)
  PROVE  IInv'
<1>1. TypeOK /\ Len(log) \in Nat
  BY DEF IInv, TypeOK
<1>2. TypeOK'
  BY <1>1 DEF TypeOK, Leave
<1>3. /\ log' = log /\ origin'[r] = 0 /\ step'[r] = "closed"
      /\ page'[r] = 1 /\ probing'[r] = FALSE
  BY <1>1 DEF TypeOK, Leave
<1>4. ReaderInv(r)'
  BY <1>1, <1>3 DEF ReaderInv, LengthBounds, Linked, Filled, Snapshots
<1>5. \A q \in Readers \ {r} : Unchanged(q)
  BY <1>1 DEF TypeOK, Leave, Unchanged
<1>6. QED
  BY <1>2, <1>4, <1>5, StepOfReader

LEMMA OpenNextKeeps ==
  ASSUME IInv, NEW r \in Readers, OpenNext(r)
  PROVE  IInv'
<1>1. TypeOK /\ Len(log) \in Nat /\ ReaderInv(r) /\ page[r] \in Nat
  BY DEF IInv, TypeOK
<1>2. TypeOK'
  BY <1>1 DEF TypeOK, OpenNext, Request
<1>3. /\ log' = log /\ origin'[r] = origin[r] /\ step'[r] = "llen"
      /\ page'[r] = page[r] + 1 /\ probing'[r] = FALSE
  BY <1>1 DEF TypeOK, OpenNext, Request
<1>4. /\ probing[r] /\ Base(r) > PagesRead(r) * PerPage
      /\ Base(r) = Len(log)
  BY <1>1 DEF OpenNext, ReaderInv, Linked, Base
<1>5. Base(r)' = Len(log)
  BY <1>3 DEF Base
<1>6. PagesRead(r)' = PagesRead(r)
  <2>1. PagesRead(r) = page[r]
    BY <1>4 DEF PagesRead
  <2>2. PagesRead(r)' = page'[r] - 1
    BY <1>3 DEF PagesRead
  <2>3. QED
    BY <1>1, <1>3, <2>1, <2>2
<1>7. Linked(r)'
  BY <1>3, <1>4, <1>5, <1>6 DEF Linked
<1>8. ReaderInv(r)'
  BY <1>1, <1>3, <1>7 DEF ReaderInv, LengthBounds, Filled, Snapshots
<1>9. \A q \in Readers \ {r} : Unchanged(q)
  BY <1>1 DEF TypeOK, OpenNext, Request, Unchanged
<1>10. QED
  BY <1>2, <1>8, <1>9, StepOfReader

LEMMA LLenKeeps ==
  ASSUME IInv, NEW r \in Readers, LLen(r)
  PROVE  IInv'
<1>1. TypeOK /\ Len(log) \in Nat /\ ReaderInv(r)
  BY DEF IInv, TypeOK
<1>2. TypeOK'
  BY <1>1 DEF TypeOK, LLen
<1>3. /\ log' = log /\ origin'[r] = origin[r] /\ step'[r] = "lrange"
      /\ page' = page /\ probing' = probing /\ total'[r] = Len(log)
      /\ items' = items /\ step[r] = "llen"
  BY <1>1 DEF TypeOK, LLen
<1>4. Base(r)' = Base(r) /\ PagesRead(r)' = PagesRead(r)
      /\ Offset(r)' = Offset(r)
  BY <1>3 DEF Base, PagesRead, Offset
<1>5. LengthBounds(r)' /\ Linked(r)' /\ Filled(r)'
  BY <1>1, <1>3, <1>4 DEF ReaderInv, LengthBounds, Linked, Filled
<1>6. Snapshots(r)'
  BY <1>1, <1>3, <1>4 DEF ReaderInv, Snapshots, Snapshot
<1>7. \A q \in Readers \ {r} : Unchanged(q)
  BY <1>1 DEF TypeOK, LLen, Unchanged
<1>8. QED
  BY <1>2, <1>5, <1>6, <1>7, StepOfReader DEF ReaderInv

(* The entries of the page: how many they are, and which.                  *)
LEMMA ItemsRead ==
  ASSUME IInv, NEW r \in Readers, ReadItems(r)
  PROVE  /\ items'[r] = RawItems(log, total[r], Offset(r), PerPage, TRUE)
         /\ items'[r] = MemoryItems(SubSeq(log, 1, total[r]), Offset(r),
                                    PerPage, TRUE)
         /\ Descends(Entries, log, items'[r], total[r] - Offset(r),
                     PageSize(PerPage, total[r] - Offset(r)))
<1> DEFINE n == total[r]
           o == Offset(r)
<1>1. log \in Seq(Entries) /\ n \in Nat /\ n <= Len(log) /\ o \in Nat
  BY Offsets DEF IInv, TypeOK, ReaderInv, LengthBounds, ReadItems
<1>2. items'[r] = RawItems(log, n, o, PerPage, TRUE)
  BY DEF IInv, TypeOK, ReadItems
<1> HIDE DEF n, o
<1>3. items'[r] = MemoryItems(SubSeq(log, 1, n), o, PerPage, TRUE)
  BY <1>1, <1>2, Constants, PageOfSnapshot
<1>4. PerPage \in Nat \ {0}
  BY Constants
<1>5. Descends(Entries, log, RawItems(log, n, o, PerPage, TRUE), n - o,
               PageSize(PerPage, n - o))
  BY <1>1, <1>4, DescItems
<1>6. QED
  BY <1>2, <1>3, <1>5 DEF n, o

LEMMA ReadItemsKeeps ==
  ASSUME IInv, NEW r \in Readers, ReadItems(r)
  PROVE  IInv'
<1> DEFINE n == total[r]
           o == Offset(r)
           k == PageSize(PerPage, n - o)
<1>1. TypeOK /\ Len(log) \in Nat /\ ReaderInv(r)
  BY DEF IInv, TypeOK
<1>2. /\ log' = log /\ origin' = origin /\ step'[r] = "llen"
      /\ page' = page /\ probing'[r] = TRUE /\ probing[r] = FALSE
      /\ step[r] = "lrange" /\ n \in origin[r] .. Len(log)
      /\ n \in Nat /\ origin[r] \in Nat /\ total' = total /\ hasNext' = hasNext
  BY <1>1 DEF TypeOK, ReadItems, ReaderInv, LengthBounds
<1>3. o \in Nat /\ PagesRead(r) * PerPage = o /\ Offset(r)' = o
  BY <1>1, <1>2, Offsets DEF Offset
<1>4. Descends(Entries, log, items'[r], n - o, k)
  BY ItemsRead
<1>5. items'[r] \in Seq(Entries) /\ Len(items'[r]) = k
  BY <1>4 DEF Descends
<1>6. TypeOK'
  <2>1. items' \in [Readers -> Seq(Entries)]
    <3>1. items' = [items EXCEPT ![r] = items'[r]]
      BY <1>1 DEF ReadItems, TypeOK
    <3>2. QED
      BY <1>1, <1>5, <3>1 DEF TypeOK
  <2>2. walked' \in [Readers -> SUBSET Entries]
    <3>1. Show(items'[r]) \subseteq Entries
      BY <1>5, ElementOfSeq DEF Show
    <3>2. QED
      BY <1>1, <3>1 DEF TypeOK, ReadItems
  <2>3. QED
    BY <1>1, <2>1, <2>2 DEF TypeOK, ReadItems
<1>7. LengthBounds(r)'
  BY <1>1, <1>2 DEF ReaderInv, LengthBounds
<1>8. Linked(r)'
  BY <1>2 DEF Linked
<1>9. Filled(r)'
  <2> SUFFICES ASSUME page[r] > 1 PROVE items'[r] # <<>>
    BY <1>2 DEF Filled
  <2>1. n > o
    BY <1>1, <1>2, <1>3 DEF ReaderInv, Linked, Base
  <2>2. k > 0
    BY <1>2, <1>3, <2>1, Constants DEF PageSize, Greatest, Least
  <2>3. QED
    BY <1>5, <2>2
<1>10. Snapshots(r)'
  <2>1. Snapshot(r, n)'
    BY <1>2, <1>3, ItemsRead DEF Snapshot
  <2>2. QED
    BY <1>2, <2>1 DEF Snapshots
<1>11. \A q \in Readers \ {r} : Unchanged(q)
  BY <1>1 DEF TypeOK, ReadItems, Unchanged
<1>12. QED
  BY <1>6, <1>7, <1>8, <1>9, <1>10, <1>11, StepOfReader DEF ReaderInv

(* What the probe finds: an entry exactly if there is one more.            *)
LEMMA Probed ==
  ASSUME IInv, NEW r \in Readers, Probe(r)
  PROVE  LET raw == RawItems(log, total[r], ProbeOffset(r), 1, FALSE)
         IN  /\ raw \in Seq(Entries)
             /\ hasNext'[r] = (Show(raw) # {})
             /\ raw # <<>> <=> total[r] > ProbeOffset(r)
             /\ \A i \in 1 .. Len(raw) :
                  \E j \in 1 .. Len(log) : raw[i] = log[j]
             /\ ProbeOffset(r) = PagesRead(r) * PerPage
<1> DEFINE n == total[r]
           o == ProbeOffset(r)
           l == 1
           raw == RawItems(log, n, o, l, FALSE)
           k == IF o >= n THEN 0 ELSE PageSize(l, Len(log) - o)
<1>0. l \in Nat \ {0}
  OBVIOUS
<1>1. /\ log \in Seq(Entries) /\ n \in Nat /\ n <= Len(log) /\ probing[r]
      /\ Len(log) \in Nat
      /\ hasNext'[r] = (Show(raw) # {})
  BY DEF IInv, TypeOK, ReaderInv, LengthBounds, Probe
<1>2. o \in Nat /\ o = PagesRead(r) * PerPage
  BY <1>1, Offsets, Constants DEF ProbeOffset, IInv
<1> HIDE DEF n, o, l
<1>3. Ascends(Entries, log, raw, o, k)
  BY <1>0, <1>1, <1>2, AscItems
<1>4. k \in Nat /\ (k > 0 <=> n > o) /\ (k > 0 => o + k <= Len(log))
  BY <1>0, <1>1, <1>2 DEF PageSize, Greatest, Least
<1> HIDE DEF k, raw
<1>5. raw \in Seq(Entries) /\ Len(raw) = k /\ \A i \in 1 .. k : raw[i] = log[o + i]
  BY <1>3 DEF Ascends
<1>6. raw # <<>> <=> n > o
  BY <1>4, <1>5, EmptySeq
<1>7. ASSUME NEW i \in 1 .. Len(raw)
      PROVE  \E j \in 1 .. Len(log) : raw[i] = log[j]
  <2>1. o + i \in 1 .. Len(log)
    BY <1>1, <1>2, <1>4, <1>5
  <2>2. QED
    BY <1>5, <2>1
<1>8. QED
  BY <1>1, <1>2, <1>5, <1>6, <1>7 DEF raw, n, o, l

LEMMA ProbeKeeps ==
  ASSUME IInv, NEW r \in Readers, Probe(r)
  PROVE  IInv'
<1> DEFINE raw == RawItems(log, total[r], ProbeOffset(r), 1, FALSE)
<1>1. TypeOK /\ Len(log) \in Nat /\ ReaderInv(r)
  BY DEF IInv, TypeOK
<1>2. TypeOK'
  BY <1>1 DEF TypeOK, Probe
<1>3. /\ log' = log /\ origin' = origin /\ step'[r] = "shown"
      /\ page' = page /\ probing' = probing /\ probing[r]
      /\ total' = total /\ items' = items /\ step[r] = "lrange"
      /\ total[r] \in origin[r] .. Len(log) /\ total[r] \in Nat
      /\ origin[r] \in Nat
  BY <1>1 DEF TypeOK, Probe, ReaderInv, LengthBounds
<1>4. PagesRead(r)' = PagesRead(r) /\ Offset(r)' = Offset(r)
      /\ Base(r)' = Len(log)
  BY <1>3 DEF PagesRead, Offset, Base
<1>5. hasNext'[r] => total[r] > PagesRead(r) * PerPage
  <2>1. Show(<<>>) = {}
    BY DEF Show
  <2>2. QED
    BY <2>1, Probed
<1>6. Linked(r)'
  <2>1. PagesRead(r) * PerPage \in Nat
    BY <1>1, Offsets, Constants
  <2>2. QED
    BY <1>1, <1>3, <1>4, <1>5, <2>1 DEF Linked
<1>7. LengthBounds(r)' /\ Filled(r)'
  BY <1>1, <1>3 DEF ReaderInv, LengthBounds, Filled
<1>8. Snapshots(r)'
  BY <1>1, <1>3, <1>4 DEF ReaderInv, Snapshots, Snapshot
<1>9. \A q \in Readers \ {r} : Unchanged(q)
  BY <1>1 DEF TypeOK, Probe, Unchanged
<1>10. QED
  BY <1>2, <1>6, <1>7, <1>8, <1>9, StepOfReader DEF ReaderInv

LEMMA NextKeeps ==
  ASSUME IInv, [Next]_vars
  PROVE  IInv'
<1>1. CASE UNCHANGED vars
  <2>1. TypeOK'
    BY <1>1 DEF IInv, TypeOK, vars, readerVars
  <2>2. \A r \in Readers : Unchanged(r)
    BY <1>1 DEF Unchanged, vars, readerVars
  <2>3. QED
    BY <2>1, <2>2, OthersKeep DEF IInv
<1>2. ASSUME NEW type \in Published, Push(type) PROVE IInv'
  BY <1>2, PushKeeps
<1>3. ASSUME NEW r \in Readers, OpenFirst(r) PROVE IInv'
  BY <1>3, OpenFirstKeeps
<1>4. ASSUME NEW r \in Readers, OpenNext(r) PROVE IInv'
  BY <1>4, OpenNextKeeps
<1>5. ASSUME NEW r \in Readers, Leave(r) PROVE IInv'
  BY <1>5, LeaveKeeps
<1>6. ASSUME NEW r \in Readers, LLen(r) PROVE IInv'
  BY <1>6, LLenKeeps
<1>7. ASSUME NEW r \in Readers, ReadItems(r) PROVE IInv'
  BY <1>7, ReadItemsKeeps
<1>8. ASSUME NEW r \in Readers, Probe(r) PROVE IInv'
  BY <1>8, ProbeKeeps
<1>9. QED
  BY <1>1, <1>2, <1>3, <1>4, <1>5, <1>6, <1>7, <1>8 DEF Next

LEMMA Invariant == Spec => []IInv
<1>1. Init => IInv
  BY InitInv
<1>2. IInv /\ [Next]_vars => IInv'
  BY NextKeeps
<1>3. QED
  BY <1>1, <1>2, PTL DEF Spec

(* The list and the walks keep their types.                                *)
THEOREM TypeCorrect == Spec => []TypeOK
<1>1. IInv => TypeOK
  BY DEF IInv
<1>2. QED
  BY <1>1, Invariant, PTL

(* Every page is the one that the queue of the tests would show of the log *)
(* at some moment of the walk, for any page size and any number of pushes  *)
(* between LLEN and LRANGE.  (redis/event_queue.py:50-78)                  *)
THEOREM PagesAreSnapshots == Spec => []PageIsSnapshot
<1>1. IInv => PageIsSnapshot
  BY DEF IInv, ReaderInv, Snapshots, Snapshot, PageIsSnapshot
<1>2. QED
  BY <1>1, Invariant, PTL

(* No link leads to an empty page.  (events.py:88-91)                      *)
THEOREM NoEmptyPages == Spec => []LinksLeadSomewhere
<1>1. IInv => LinksLeadSomewhere
  BY DEF IInv, ReaderInv, Filled, LinksLeadSomewhere
<1>2. QED
  BY <1>1, Invariant, PTL

-----------------------------------------------------------------------------
(* The walk *)

(* The list holds nothing but what this version of the program can read.   *)
AllReadable == \A i \in 1 .. Len(log) : Readable(log[i])

(* The pages read so far cover the newest entries, and a page without a    *)
(* link is the last one.                                                   *)
Covered(r) ==
  \A i \in 1 .. origin[r] :
    i > Base(r) - PagesRead(r) * PerPage => log[i] \in walked[r]
Complete(r) ==
  step[r] = "shown" /\ ~hasNext[r] =>
    \A i \in 1 .. origin[r] : log[i] \in walked[r]

WalkInv == AllReadable /\ \A r \in Readers : Covered(r) /\ Complete(r)

LEMMA OthersCover ==
  ASSUME NEW r, Covered(r), Complete(r), Unchanged(r)
  PROVE  Covered(r)' /\ Complete(r)'
<1>1. Base(r)' = Base(r) /\ PagesRead(r)' = PagesRead(r)
  BY DEF Unchanged, Base, PagesRead
<1>2. QED
  BY <1>1 DEF Unchanged, Covered, Complete

LEMMA WalkOfReader ==
  ASSUME WalkInv, NEW r \in Readers, log' = log,
         Covered(r)', Complete(r)',
         \A q \in Readers \ {r} : Unchanged(q)
  PROVE  WalkInv'
<1>1. AllReadable'
  BY DEF WalkInv, AllReadable
<1>2. ASSUME NEW q \in Readers PROVE Covered(q)' /\ Complete(q)'
  <2>1. CASE q = r
    BY <2>1
  <2>2. CASE q # r
    BY <2>2, OthersCover DEF WalkInv
  <2>3. QED
    BY <2>1, <2>2
<1>3. QED
  BY <1>1, <1>2 DEF WalkInv

LEMMA PushCovers ==
  ASSUME IInv, WalkInv, NEW type, Push(type)
  PROVE  WalkInv'
<1>1. log' = Pushed(type) /\ UNCHANGED readerVars /\ TypeOK
  BY DEF Push, IInv
<1>2. /\ Len(log') \in Nat /\ Len(log) \in Nat /\ Len(log') >= Len(log)
      /\ \A i \in 1 .. Len(log) : log'[i] = log[i]
      /\ \A i \in 1 .. Len(log') : i > Len(log) => log'[i].type \in DomainEvents
  BY <1>1, Pushes
<1>3. AllReadable'
  <2> SUFFICES ASSUME NEW i \in 1 .. Len(log') PROVE Readable(log'[i])
    BY DEF AllReadable
  <2>1. CASE i <= Len(log)
    BY <1>2, <2>1 DEF WalkInv, AllReadable
  <2>2. CASE i > Len(log)
    BY <1>2, <2>2 DEF Readable, Registry, DomainEvents
  <2>3. QED
    BY <1>2, <2>1, <2>2
<1>4. ASSUME NEW r \in Readers PROVE Covered(r)' /\ Complete(r)'
  <2>1. /\ origin[r] \in Nat /\ origin[r] <= Len(log) /\ total[r] \in Nat
        /\ Covered(r) /\ Complete(r)
    BY <1>1 DEF IInv, TypeOK, ReaderInv, LengthBounds, WalkInv
  <2>2. \A i \in 1 .. origin[r] : log'[i] = log[i]
    BY <1>2, <2>1
  <2>3. Base(r)' \in Nat /\ Base(r) \in Nat /\ Base(r)' >= Base(r)
    BY <1>1, <1>2, <2>1 DEF Base, readerVars
  <2>4. PagesRead(r)' = PagesRead(r)
    BY <1>1 DEF PagesRead, readerVars
  <2>5. PagesRead(r) * PerPage \in Nat
    BY <1>1, Offsets, Constants
  <2>6. Covered(r)'
    BY <1>1, <2>1, <2>2, <2>3, <2>4, <2>5 DEF Covered, readerVars
  <2>7. Complete(r)'
    BY <1>1, <2>1, <2>2 DEF Complete, readerVars
  <2>8. QED
    BY <2>6, <2>7
<1>5. QED
  BY <1>3, <1>4 DEF WalkInv

LEMMA ReadItemsCovers ==
  ASSUME IInv, WalkInv, NEW r \in Readers, ReadItems(r)
  PROVE  WalkInv'
<1> DEFINE n == total[r]
           o == Offset(r)
           k == PageSize(PerPage, n - o)
<1>1. TypeOK /\ Len(log) \in Nat /\ ReaderInv(r) /\ Covered(r) /\ AllReadable
  BY DEF IInv, TypeOK, WalkInv
<1>2. /\ log' = log /\ origin' = origin /\ step'[r] = "llen"
      /\ page' = page /\ probing'[r] = TRUE /\ probing[r] = FALSE
      /\ step[r] = "lrange" /\ n \in Nat /\ n <= Len(log)
      /\ origin[r] \in Nat /\ origin[r] <= n
      /\ walked'[r] = walked[r] \union Show(items'[r])
  BY <1>1 DEF TypeOK, ReadItems, ReaderInv, LengthBounds
<1>3. o \in Nat /\ PagesRead(r) * PerPage = o
      /\ PagesRead(r)' * PerPage = o + PerPage
  <2>1. PagesRead(r) * PerPage = o /\ o \in Nat
    BY <1>1, <1>2, Offsets
  <2>2. page[r] - 1 \in Nat /\ page[r] = (page[r] - 1) + 1
    BY <1>1 DEF TypeOK
  <2>3. page[r] * PerPage = o + PerPage
    BY <2>2, Multiples DEF Offset
  <2>4. PagesRead(r)' = page[r]
    BY <1>2 DEF PagesRead
  <2>5. QED
    BY <2>1, <2>3, <2>4
<1>4. /\ items'[r] \in Seq(Entries) /\ Len(items'[r]) = k
      /\ \A i \in 1 .. k : items'[r][i] = log[n - o + 1 - i]
  BY ItemsRead DEF Descends
<1>5. k \in Nat /\ (n - o >= PerPage => k = PerPage)
      /\ (0 <= n - o /\ n - o < PerPage => k = n - o)
      /\ PerPage \in Nat
  BY <1>2, <1>3, Constants DEF PageSize, Greatest, Least
<1>6. Base(r) = n /\ Base(r)' = Len(log)
  BY <1>2 DEF Base
<1> HIDE DEF k, n, o
<1>7. ASSUME NEW i \in 1 .. origin[r], i > Len(log) - (o + PerPage)
      PROVE  log[i] \in walked'[r]
  <2>1. CASE i > n - o
    <3>1. log[i] \in walked[r]
      BY <1>1, <1>3, <1>6, <2>1 DEF Covered
    <3>2. QED
      BY <1>2, <3>1
  <2>2. CASE i <= n - o
    <3> DEFINE j == n - o + 1 - i
    <3>1. j \in 1 .. k /\ n - o + 1 - j = i /\ i \in 1 .. Len(log)
      BY <1>1, <1>2, <1>3, <1>5, <1>7, <2>2
    <3>2. items'[r][j] = log[i] /\ Readable(log[i]) /\ j \in DOMAIN items'[r]
      <4> HIDE DEF j
      <4>1. QED
        BY <1>1, <1>4, <3>1 DEF AllReadable
    <3>3. log[i] \in Show(items'[r])
      BY <3>2 DEF Show
    <3>4. QED
      BY <1>2, <3>3
  <2>3. QED
    BY <1>2, <1>3, <2>1, <2>2
<1>8. Covered(r)'
  BY <1>2, <1>3, <1>6, <1>7 DEF Covered
<1>9. Complete(r)'
  BY <1>2 DEF Complete
<1>10. \A q \in Readers \ {r} : Unchanged(q)
  BY <1>1 DEF TypeOK, ReadItems, Unchanged
<1>11. QED
  BY <1>2, <1>8, <1>9, <1>10, WalkOfReader

LEMMA ProbeCovers ==
  ASSUME IInv, WalkInv, NEW r \in Readers, Probe(r)
  PROVE  WalkInv'
<1> DEFINE raw == RawItems(log, total[r], ProbeOffset(r), 1, FALSE)
           m == PagesRead(r) * PerPage
<1>1. TypeOK /\ Len(log) \in Nat /\ ReaderInv(r) /\ Covered(r) /\ AllReadable
  BY DEF IInv, TypeOK, WalkInv
<1>2. /\ log' = log /\ origin' = origin /\ step'[r] = "shown"
      /\ page' = page /\ probing' = probing /\ probing[r]
      /\ step[r] = "lrange" /\ total[r] \in Nat /\ total[r] <= Len(log)
      /\ origin[r] \in Nat /\ walked' = walked
  BY <1>1 DEF TypeOK, Probe, ReaderInv, LengthBounds
<1>3. /\ PagesRead(r)' = PagesRead(r) /\ Base(r)' = Len(log)
      /\ Base(r) = total[r] /\ m \in Nat
  BY <1>1, <1>2, Offsets, Constants DEF PagesRead, Base
<1>4. /\ raw \in Seq(Entries) /\ hasNext'[r] = (Show(raw) # {})
      /\ raw # <<>> <=> total[r] > m
      /\ \A i \in 1 .. Len(raw) : \E j \in 1 .. Len(log) : raw[i] = log[j]
  BY Probed
<1> HIDE DEF raw, m
<1>5. ~hasNext'[r] => total[r] <= m
  <2> SUFFICES ASSUME ~(total[r] <= m) PROVE Show(raw) # {}
    BY <1>4
  <2>0. total[r] > m
    BY <1>2, <1>3
  <2>1. Len(raw) \in Nat /\ Len(raw) # 0
    BY <1>4, <2>0, EmptySeq
  <2>2. 1 \in 1 .. Len(raw) /\ DOMAIN raw = 1 .. Len(raw)
    BY <1>4, <2>1
  <2>3. Readable(raw[1])
    BY <1>1, <1>4, <2>2 DEF AllReadable
  <2>4. QED
    BY <2>2, <2>3 DEF Show
<1>6. Covered(r)'
  BY <1>1, <1>2, <1>3 DEF Covered, m
<1>7. Complete(r)'
  <2> SUFFICES ASSUME ~hasNext'[r], NEW i \in 1 .. origin[r]
               PROVE  log[i] \in walked[r]
    BY <1>2 DEF Complete
  <2>1. i > total[r] - m
    BY <1>2, <1>3, <1>5
  <2>2. QED
    BY <1>1, <1>3, <2>1 DEF Covered, m
<1>8. \A q \in Readers \ {r} : Unchanged(q)
  BY <1>1 DEF TypeOK, Probe, Unchanged
<1>9. QED
  BY <1>2, <1>6, <1>7, <1>8, WalkOfReader

(* The steps that read no entries.                                         *)
LEMMA RequestCovers ==
  ASSUME IInv, WalkInv, NEW r \in Readers,
         OpenFirst(r) \/ OpenNext(r) \/ Leave(r) \/ LLen(r)
  PROVE  WalkInv'
<1>1. TypeOK /\ Len(log) \in Nat /\ ReaderInv(r) /\ Covered(r)
      /\ page[r] \in Nat /\ origin[r] \in 0 .. Len(log)
  BY DEF IInv, TypeOK, WalkInv, ReaderInv, LengthBounds
<1>2. log' = log /\ step'[r] # "shown" /\ \A q \in Readers \ {r} : Unchanged(q)
  BY <1>1 DEF TypeOK, OpenFirst, OpenNext, Request, Leave, LLen, Unchanged
<1>3. Complete(r)'
  BY <1>2 DEF Complete
<1>4. Covered(r)'
  <2>1. CASE OpenFirst(r)
    <3>1. /\ origin'[r] = Len(log) /\ Base(r)' = Len(log)
          /\ PagesRead(r)' = 0
      BY <1>1, <2>1 DEF OpenFirst, Request, TypeOK, Base, PagesRead
    <3>2. PagesRead(r)' * PerPage = 0
      BY <3>1, Constants
    <3>3. \A i \in 1 .. Len(log) : ~(i > Len(log) - 0)
      BY <1>1
    <3>4. QED
      BY <3>1, <3>2, <3>3 DEF Covered
  <2>2. CASE Leave(r)
    <3>1. origin'[r] = 0
      BY <1>1, <2>2 DEF Leave, TypeOK
    <3>2. QED
      BY <3>1 DEF Covered
  <2>3. CASE OpenNext(r)
    <3>1. /\ log' = log /\ origin' = origin /\ walked' = walked
          /\ step'[r] = "llen" /\ step[r] = "shown" /\ probing[r]
          /\ page'[r] = page[r] + 1 /\ probing'[r] = FALSE
      BY <1>1, <2>3 DEF OpenNext, Request, TypeOK, ReaderInv, Linked
    <3>2. Base(r)' = Base(r)
      BY <3>1 DEF Base
    <3>3. PagesRead(r) = page[r]
      BY <3>1 DEF PagesRead
    <3>4. PagesRead(r)' = page'[r] - 1
      BY <3>1 DEF PagesRead
    <3>5. PagesRead(r)' = PagesRead(r)
      BY <1>1, <3>1, <3>3, <3>4
    <3>6. QED
      BY <1>1, <3>1, <3>2, <3>5 DEF Covered
  <2>4. CASE LLen(r)
    <3>1. /\ log' = log /\ origin' = origin /\ walked' = walked
          /\ step'[r] = "lrange" /\ step[r] = "llen" /\ total'[r] = Len(log)
          /\ page' = page /\ probing' = probing
      BY <1>1, <2>4 DEF LLen, TypeOK
    <3>2. Base(r)' = Base(r) /\ PagesRead(r)' = PagesRead(r)
      BY <3>1 DEF Base, PagesRead
    <3>3. QED
      BY <1>1, <3>1, <3>2 DEF Covered
  <2>5. QED
    BY <2>1, <2>2, <2>3, <2>4
<1>5. QED
  BY <1>2, <1>3, <1>4, WalkOfReader

(* If the list is readable when the program starts, a walk along the links *)
(* from the first page to the last shows every entry that the list held    *)
(* when it began, whatever is pushed meanwhile.  (events.py:72-91)         *)
THEOREM WalksMissNothing ==
  ASSUME \A i \in 1 .. Len(Older) : Readable(Older[i])
  PROVE  Spec => []WalkMissesNothing
<1>1. Init => WalkInv
  BY Constants DEF Init, WalkInv, AllReadable, Covered, Complete
<1>2. IInv /\ WalkInv /\ [Next]_vars => WalkInv'
  <2> SUFFICES ASSUME IInv, WalkInv, [Next]_vars PROVE WalkInv'
    OBVIOUS
  <2>1. CASE UNCHANGED vars
    <3>1. AllReadable' /\ \A r \in Readers : Unchanged(r)
      BY <2>1 DEF Unchanged, vars, readerVars, WalkInv, AllReadable
    <3>2. QED
      BY <3>1, OthersCover DEF WalkInv
  <2>2. ASSUME NEW type \in Published, Push(type) PROVE WalkInv'
    BY <2>2, PushCovers
  <2>3. ASSUME NEW r \in Readers,
               OpenFirst(r) \/ OpenNext(r) \/ Leave(r) \/ LLen(r)
        PROVE  WalkInv'
    BY <2>3, RequestCovers
  <2>4. ASSUME NEW r \in Readers, ReadItems(r) PROVE WalkInv'
    BY <2>4, ReadItemsCovers
  <2>5. ASSUME NEW r \in Readers, Probe(r) PROVE WalkInv'
    BY <2>5, ProbeCovers
  <2>6. QED
    BY <2>1, <2>2, <2>3, <2>4, <2>5 DEF Next
<1>3. WalkInv => WalkMissesNothing
  BY DEF WalkInv, Complete, WalkMissesNothing
<1>4. QED
  BY <1>1, <1>2, <1>3, Invariant, PTL DEF Spec

=============================================================================
