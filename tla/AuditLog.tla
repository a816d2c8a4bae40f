------------------------------ MODULE AuditLog -------------------------------
(***************************************************************************)
(* The audit log: a Redis list that RedisEventQueue.push appends to and    *)
(* RedisEventQueue.get reads a slice of, with one command for the length   *)
(* and another for the entries, and the events page, on which an operator  *)
(* walks from the newest entries to the oldest.  Pushes may come between   *)
(* any two commands.                                                       *)
(***************************************************************************)
EXTENDS Integers, Sequences

CONSTANTS Readers,      \* open events pages
          PerPage,      \* entries on a page (10 in the code)
          Published,    \* types of the events that the use cases publish
          MaxLog,       \* bound on the entries of the log
          Older         \* what the list holds at the start

DomainEvents == {"UserCreated", "UserActivated", "UserDeactivated",
                 "UserEmailVerified", "UserPasswordChanged",
                 "UserPasswordRecovered", "RefreshTokenCreated",
                 "RefreshTokenRevoked"}
ApplicationEvents == {"RefreshTokenReuseDetected",
                      "SuspiciousRefreshTokenRevocation"}

(* The classes deserialize() can build; an entry of any other type is one  *)
(* that only another version of the program knows.                         *)
Registry == {"UserCreated", "UserActivated", "UserDeactivated",
             "UserEmailVerified", "UserPasswordChanged",
             "UserPasswordRecovered", "RefreshTokenCreated",
             "RefreshTokenRevoked"}
Types == DomainEvents \union Registry \union {"Unknown"}

(* at: the position in the list, which tells equal events apart.           *)
Entries == [type : Types, at : Nat]

Readable(e) == e.type \in Registry

ASSUME AuditLogAssumption ==
  /\ PerPage \in Nat \ {0}
  /\ Published \subseteq DomainEvents \union ApplicationEvents
  /\ MaxLog \in Nat
  /\ Older \in Seq(Entries)
  /\ \A i \in 1 .. Len(Older) : Older[i].at = i

VARIABLES log,      \* the list auth:events
          step,     \* where a reader's request is waiting
          page,     \* the page it reads
          probing,  \* it has the entries and asks for the next page
          total,    \* what LLEN answered
          items,    \* the entries of the page, as LRANGE returned them
          hasNext,  \* whether the page has a link to the next one
          walked,   \* history: the entries shown since the first page
          origin    \* history: length of the log when the walk began

readerVars == <<step, page, probing, total, items, hasNext, walked, origin>>
vars == <<log, readerVars>>

-----------------------------------------------------------------------------
(* Slices, with positions from 0 as in Redis and Python                    *)

Least(m, n) == IF m < n THEN m ELSE n
Greatest(m, n) == IF m > n THEN m ELSE n

(* LRANGE key start stop; an empty list when the range is empty.           *)
LRange(s, start, stop) ==
  [i \in 1 .. Greatest(Least(stop, Len(s) - 1) - start + 1, 0) |->
     s[start + i]]

Reversed(s) == [i \in 1 .. Len(s) |-> s[Len(s) + 1 - i]]

(* Python's s[from:to].                                                    *)
PySlice(s, from, to) ==
  [i \in 1 .. Greatest(Least(to, Len(s)) - Least(from, Len(s)), 0) |->
     s[from + i]]

(* RedisEventQueue.get, once LLEN has answered n.  The mutated form counts *)
(* the last entry of the page from the end of the list, as Redis can.      *)
RawItemsToTail(s, n, offset, limit, desc) ==
  IF n = 0 \/ offset >= n THEN <<>>
  ELSE IF desc
       THEN LET start == n - 1 - offset IN
            Reversed(LRange(s, Greatest(start - limit + 1, 0),
                            Len(s) - 1 - offset))
       ELSE LRange(s, offset, offset + limit - 1)
RawItems(s, n, offset, limit, desc) ==
  IF n = 0 \/ offset >= n THEN <<>>
  ELSE IF desc
       THEN LET start == n - 1 - offset IN
            Reversed(LRange(s, Greatest(start - limit + 1, 0), start))
       ELSE LRange(s, offset, offset + limit - 1)

(* InMemoryEventQueue.get                                                  *)
MemoryItems(s, offset, limit, desc) ==
  IF offset < 0 \/ limit <= 0 THEN <<>>
  ELSE PySlice(IF desc THEN Reversed(s) ELSE s, offset, offset + limit)

-----------------------------------------------------------------------------

Init ==
  /\ log = Older
  /\ step = [r \in Readers |-> "closed"]
  /\ page = [r \in Readers |-> 1]
  /\ probing = [r \in Readers |-> FALSE]
  /\ total = [r \in Readers |-> 0]
  /\ items = [r \in Readers |-> <<>>]
  /\ hasNext = [r \in Readers |-> FALSE]
  /\ walked = [r \in Readers |-> {}]
  /\ origin = [r \in Readers |-> 0]

(* push: what is not a DomainEvent is skipped.                             *)
Pushed(type) ==
  IF type \in DomainEvents
  THEN Append(log, [type |-> type, at |-> Len(log) + 1]) ELSE log

Push(type) ==
  /\ Len(log) < MaxLog
  /\ log' = Pushed(type)
  /\ UNCHANGED readerVars

Offset(r) == (page[r] - 1) * PerPage
EarlyProbe(r) == Offset(r) + PerPage - 1
LateProbe(r) == Offset(r) + PerPage + 1
ProbeOffset(r) == Offset(r) + PerPage

Request(r, p) ==
  /\ step' = [step EXCEPT ![r] = "llen"]
  /\ page' = [page EXCEPT ![r] = p]
  /\ probing' = [probing EXCEPT ![r] = FALSE]

(* The operator opens the first page ...                                   *)
OpenFirst(r) ==
  /\ step[r] = "closed"
  /\ Request(r, 1)
  /\ walked' = [walked EXCEPT ![r] = {}]
  /\ origin' = [origin EXCEPT ![r] = Len(log)]
  /\ UNCHANGED <<log, total, items, hasNext>>

(* ... and follows the link to the next one, ...                           *)
OpenNext(r) ==
  /\ step[r] = "shown"
  /\ hasNext[r]
  /\ Request(r, page[r] + 1)
  /\ UNCHANGED <<log, total, items, hasNext, walked, origin>>

(* ... until he leaves, or Redis fails and the page answers 500.           *)
Leave(r) ==
  /\ step[r] # "closed"
  /\ step' = [step EXCEPT ![r] = "closed"]
  /\ page' = [page EXCEPT ![r] = 1]
  /\ probing' = [probing EXCEPT ![r] = FALSE]
  /\ total' = [total EXCEPT ![r] = 0]
  /\ items' = [items EXCEPT ![r] = <<>>]
  /\ hasNext' = [hasNext EXCEPT ![r] = FALSE]
  /\ walked' = [walked EXCEPT ![r] = {}]
  /\ origin' = [origin EXCEPT ![r] = 0]
  /\ UNCHANGED log

LLen(r) ==
  /\ step[r] = "llen"
  /\ total' = [total EXCEPT ![r] = Len(log)]
  /\ step' = [step EXCEPT ![r] = "lrange"]
  /\ UNCHANGED <<log, page, probing, items, hasNext, walked, origin>>

Show(raw) == {raw[i] : i \in {j \in DOMAIN raw : Readable(raw[j])}}

(* events_page: the entries of the page, newest first ...                  *)
ReadItems(r) ==
  /\ step[r] = "lrange"
  /\ ~probing[r]
  /\ items' = [items EXCEPT
                 ![r] = RawItems(log, total[r], Offset(r), PerPage, TRUE)]
  /\ walked' = [walked EXCEPT ![r] = @ \union Show(items'[r])]
  /\ probing' = [probing EXCEPT ![r] = TRUE]
  /\ step' = [step EXCEPT ![r] = "llen"]
  /\ UNCHANGED <<log, page, total, hasNext, origin>>

(* ... and then whether there is one more entry, in the oldest-first order *)
Probe(r) ==
  /\ step[r] = "lrange"
  /\ probing[r]
  /\ hasNext' = [hasNext EXCEPT
       ![r] = Show(RawItems(log, total[r], ProbeOffset(r), 1, FALSE)) # {}]
  /\ step' = [step EXCEPT ![r] = "shown"]
  /\ UNCHANGED <<log, page, probing, total, items, walked, origin>>

Next ==
  \/ \E type \in Published : Push(type)
  \/ \E r \in Readers :
       \/ OpenFirst(r) \/ OpenNext(r) \/ Leave(r)
       \/ LLen(r) \/ ReadItems(r) \/ Probe(r)

Spec == Init /\ [][Next]_vars

-----------------------------------------------------------------------------

TypeOK ==
  /\ log \in Seq(Entries)
  /\ \A i \in 1 .. Len(log) : log[i].at = i
  /\ step \in [Readers -> {"closed", "llen", "lrange", "shown"}]
  /\ page \in [Readers -> Nat \ {0}]
  /\ probing \in [Readers -> BOOLEAN]
  /\ total \in [Readers -> Nat]
  /\ items \in [Readers -> Seq(Entries)]
  /\ hasNext \in [Readers -> BOOLEAN]
  /\ walked \in [Readers -> SUBSET Entries]
  /\ origin \in [Readers -> Nat]

(* A page shows the log of one moment since the walk began, although its   *)
(* length and its entries come from two commands with pushes in between,   *)
(* and shows it as the in-memory queue of the tests would.                 *)
(* (redis/event_queue.py:50-78, in_memory/event_queue.py:24-32)            *)
PageIsSnapshot ==
  \A r \in Readers :
    probing[r] =>
      \E n \in origin[r] .. Len(log) :
        items[r] = MemoryItems(SubSeq(log, 1, n), Offset(r), PerPage, TRUE)

(* Following the links to the last page misses nothing that was in the log *)
(* when the walk began, though pushes shift the entries from page to page  *)
(* and the next page is probed in the opposite order.  (events.py:72-91)   *)
WalkMissesNothing ==
  \A r \in Readers :
    step[r] = "shown" /\ ~hasNext[r] =>
      \A i \in 1 .. origin[r] : log[i] \in walked[r]

(* A link never leads to an empty page.  (events.py:88-91)                 *)
LinksLeadSomewhere ==
  \A r \in Readers : probing[r] /\ page[r] > 1 => items[r] # <<>>

-----------------------------------------------------------------------------
(* What a comment says and the code does not do.                           *)

(* events.py: "Check if next page exists".                                 *)
NextPageFound ==
  \A r \in Readers :
    step[r] = "shown" /\ ~hasNext[r] => total[r] <= Offset(r) + PerPage

=============================================================================
