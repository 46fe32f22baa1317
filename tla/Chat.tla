-------------------------------- MODULE Chat --------------------------------
(***************************************************************************)
(* The recent messages of a conversation (chat/chat.go).  The cache keeps  *)
(* a slice of an array of messages: an append writes into the array when   *)
(* it has room, a message with a known ID is replaced in place, and the    *)
(* slices that were handed out before may share the array.  The mutex is   *)
(* the store's; the cache may evict the conversation at any time.          *)
(***************************************************************************)
EXTENDS Naturals, Sequences, FiniteSets

CONSTANTS
    Agents,
    Messages,    \* an ID and a payload each
    MessagesPerConversation,
    MaxCalls,    \* bound: how many calls are made
    None

ChatAssumption ==
    /\ MessagesPerConversation \in Nat \ {0} /\ MaxCalls \in Nat

VARIABLES
    arrays,      \* the arrays made so far, each a sequence of messages, None where unused
    cached,      \* the slice in the cache
    chatMu,      \* who holds the mutex
    chatter,     \* the calls
    appended,    \* how many calls were made
    \* history
    log,         \* the messages that Recent should show
    recents,     \* what Recent has returned, with the messages it showed then
    given        \* what OnDeletion was given, with the messages it showed then

memory  == <<arrays, cached, chatMu>>
history == <<log, recents, given>>
vars    == <<memory, chatter, appended, history>>

M == MessagesPerConversation

\* A slice: its array, how many cells it skips, its length.
Empty       == [array |-> 0, from |-> 0, len |-> 0]
Contents(s) == [i \in 1..s.len |-> arrays[s.array][s.from + i]]
Ids(msgs)   == [i \in DOMAIN msgs |-> msgs[i].id]
Show(s)     == [slice |-> s, was |-> Contents(s)]
Give        == given' = IF cached = None THEN given ELSE given \cup {Show(cached)}

Idle == [pc |-> "off", op |-> "none", message |-> None, slice |-> Empty, log |-> <<>>]

Init ==
    /\ arrays = <<>> /\ cached = None /\ chatMu = None
    /\ chatter = [a \in Agents |-> Idle]
    /\ appended = 0
    /\ log = <<>> /\ recents = {} /\ given = {}

At(a, l)   == chatter[a].pc = l
Goto(a, l) == chatter' = [chatter EXCEPT ![a].pc = l]

--------------------------------------------------------------------------------

\* Append, unless Accept rejects the message; Recent; Invalidate.
Begin(a) ==
    /\ At(a, "off") /\ appended < MaxCalls
    /\ \/ \E m \in Messages : chatter' = [chatter EXCEPT ![a] =
                                [Idle EXCEPT !.pc = "lock", !.op = "append", !.message = m]]
       \/ \E o \in {"recent", "invalidate"} :
            chatter' = [chatter EXCEPT ![a] = [Idle EXCEPT !.pc = "lock", !.op = o]]
    /\ appended' = appended + 1
    /\ UNCHANGED <<memory, history>>

\* Mutant: no mutex.
LockNothing(a) ==
    /\ At(a, "lock")
    /\ Goto(a, IF chatter[a].op = "invalidate" THEN "invalidate" ELSE "get")
    /\ UNCHANGED <<memory, appended, history>>

Lock(a) ==
    /\ At(a, "lock") /\ chatMu = None
    /\ chatMu' = a
    /\ Goto(a, IF chatter[a].op = "invalidate" THEN "invalidate" ELSE "get")
    /\ UNCHANGED <<arrays, cached, appended, history>>

\* GetIfPresent: nothing is an empty slice.
Get(a) ==
    /\ At(a, "get")
    /\ chatter' = [chatter EXCEPT ![a].pc = chatter[a].op,
                                  ![a].slice = IF cached = None THEN Empty ELSE cached,
                                  ![a].log = IF cached = None THEN <<>> ELSE log]
    /\ UNCHANGED <<memory, appended, history>>

Known(a) == {i \in 1..chatter[a].slice.len : Contents(chatter[a].slice)[i].id = chatter[a].message.id}

\* messages[index] = message, in the array of the cached value.
Replace(a) ==
    /\ At(a, "append") /\ Known(a) # {}
    /\ LET s == chatter[a].slice
           i == CHOOSE i \in Known(a) : \A j \in Known(a) : i <= j
       IN  arrays' = [arrays EXCEPT ![s.array][s.from + i] = chatter[a].message]
    /\ Goto(a, "set")
    /\ UNCHANGED <<cached, chatMu, appended, history>>

\* messages[len(messages)-messagesPerConversation:]
Trim(s) == IF s.len <= M THEN s ELSE [s EXCEPT !.from = @ + s.len - M, !.len = M]

Room(s) == IF s.array = 0 THEN 0 ELSE Len(arrays[s.array]) - s.from - s.len

\* Mutant: a full array is used again, its messages move up.
AppendInPlace(a) ==
    /\ At(a, "append") /\ Known(a) = {}
    /\ LET s == chatter[a].slice
           m == chatter[a].message
       IN  IF s.len = M
           THEN /\ arrays' = [arrays EXCEPT ![s.array] =
                               SubSeq(@, 1, s.from) \o SubSeq(@, s.from + 2, s.from + M) \o <<m>>]
                /\ Goto(a, "set")
           ELSE /\ arrays' = Append(arrays, Append(Contents(s), m))
                /\ chatter' = [chatter EXCEPT ![a].pc = "set",
                                  ![a].slice = [array |-> Len(arrays) + 1, from |-> 0, len |-> s.len + 1]]
    /\ UNCHANGED <<cached, chatMu, appended, history>>

\* append writes behind the slice when the array has room, else it copies the slice into
\* a larger one, with or without more room.
AppendMessage(a) ==
    /\ At(a, "append") /\ Known(a) = {}
    /\ LET s == chatter[a].slice
           m == chatter[a].message
       IN  IF Room(s) > 0
           THEN /\ arrays' = [arrays EXCEPT ![s.array][s.from + s.len + 1] = m]
                /\ chatter' = [chatter EXCEPT ![a].pc = "set", ![a].slice = Trim([s EXCEPT !.len = @ + 1])]
           ELSE /\ \E spare \in {<<>>, [i \in 1..s.len |-> None]} :
                     arrays' = Append(arrays, Append(Contents(s), m) \o spare)
                /\ chatter' = [chatter EXCEPT ![a].pc = "set",
                                  ![a].slice = Trim([array |-> Len(arrays) + 1, from |-> 0, len |-> s.len + 1])]
    /\ UNCHANGED <<cached, chatMu, appended, history>>

\* What the log becomes: the message in the place of its ID, or at the end.
Logged(msgs, m) ==
    LET all == Append(msgs, m)
    IN  IF \E i \in DOMAIN msgs : msgs[i].id = m.id
        THEN [i \in DOMAIN msgs |-> IF msgs[i].id = m.id THEN m ELSE msgs[i]]
        ELSE SubSeq(all, IF Len(all) > M THEN Len(all) - M + 1 ELSE 1, Len(all))

\* conversations.Set, whose OnDeletion is given the value it replaces; then the mutex is released.
Set(a) ==
    /\ At(a, "set")
    /\ cached' = chatter[a].slice
    /\ log' = Logged(chatter[a].log, chatter[a].message)
    /\ Give
    /\ chatMu' = None
    /\ chatter' = [chatter EXCEPT ![a] = Idle]
    /\ UNCHANGED <<arrays, appended, recents>>

\* Mutant: the cached slice itself.
RecentShared(a) ==
    /\ At(a, "recent")
    /\ recents' = recents \cup {Show(chatter[a].slice)}
    /\ chatMu' = None
    /\ chatter' = [chatter EXCEPT ![a] = Idle]
    /\ UNCHANGED <<arrays, cached, appended, log, given>>

\* A copy of the last messages.
Recent(a) ==
    /\ At(a, "recent")
    /\ \E limit \in 1..M :
         LET s    == chatter[a].slice
             n    == IF limit < s.len THEN limit ELSE s.len
             last == SubSeq(Contents(s), s.len - n + 1, s.len)
         IN  /\ arrays' = Append(arrays, last)
             /\ recents' = recents \cup {[slice |-> [array |-> Len(arrays) + 1, from |-> 0, len |-> n],
                                          was |-> last]}
    /\ chatMu' = None
    /\ chatter' = [chatter EXCEPT ![a] = Idle]
    /\ UNCHANGED <<cached, appended, log, given>>

Drop ==
    /\ cached' = None /\ log' = <<>>
    /\ Give

Invalidate(a) ==
    /\ At(a, "invalidate")
    /\ Drop
    /\ chatMu' = None
    /\ chatter' = [chatter EXCEPT ![a] = Idle]
    /\ UNCHANGED <<arrays, appended, recents>>

\* The conversation expires, or is evicted, without the mutex.
Evict ==
    /\ cached # None
    /\ Drop
    /\ UNCHANGED <<arrays, chatMu, chatter, appended, recents>>

Next ==
    \/ Evict
    \/ \E a \in Agents : Begin(a) \/ Lock(a) \/ Get(a) \/ Replace(a) \/ AppendMessage(a)
                          \/ Set(a) \/ Recent(a) \/ Invalidate(a)

--------------------------------------------------------------------------------
(* Properties *)

\* The cached slice shows the last messages in the order of their first append, each
\* ID once and with its last payload, although arrays are shared and overwritten.
\* A message that is being replaced in place may show already.
ShowsTheLog ==
    (cached # None /\ \A a \in Agents : ~At(a, "set")) => Contents(cached) = log

\* What Recent has returned does not change any more.
RecentsKept == \A r \in recents : Contents(r.slice) = r.was

\* A listener that still reads a conversation that was replaced or evicted sees the
\* same IDs: only a payload may change under it.
GivenKeepIds == \A r \in given : Ids(Contents(r.slice)) = Ids(r.was)

\* Together: what each holder of a slice sees in it.
SlicesSound == ShowsTheLog /\ RecentsKept /\ GivenKeepIds

=============================================================================
