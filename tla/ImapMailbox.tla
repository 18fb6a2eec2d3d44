----------------------------- MODULE ImapMailbox -----------------------------
(***************************************************************************)
(* One mailbox of one connection of the IMAP proxy                         *)
(* (smtp_proxy_server/imap_mailbox.py): the index of UIDs, the cache of    *)
(* parsed messages and the flags, filled page by page from the API.        *)
(*                                                                         *)
(* Mails arrive and are deleted at the backend between any two calls.  A   *)
(* client may send a command before the last one is answered, so commands  *)
(* overlap at every yield.  A call is answered with what the backend had   *)
(* at some moment (Serve), used later (the steps of the command), or fails.*)
(***************************************************************************)
EXTENDS Integers, FiniteSets, FiniteSetsExt, SequencesExt

CONSTANTS
  Commands,   \* commands of a connection, each run once
  MaxId,      \* bound: ids of mails
  MaxChanges, \* bound: arrivals and deletions
  Batch,      \* the size of a page, for the index and for messages
  CacheSize,  \* imap_cache_size
  Broken      \* the ids of mails whose parsing raises

ImapMailboxAssumption ==
  /\ MaxId \in Nat \ {0} /\ Batch \in Nat \ {0}
  /\ MaxChanges \in Nat /\ CacheSize \in Nat

VARIABLES
  rows,    \* the ids the backend has; it lists them newest first
  count,   \* _message_count
  index,   \* _uid_index, which is sorted
  built,   \* _uid_index_built
  cache,   \* the uids of MessageCache, the least recently used one first
  flags,   \* _flags: who set them last, fetch (to \Seen) or STORE, or nobody
  cmd,     \* the commands
  shaken,  \* history: a mail was deleted since the last build began
  spoilt,  \* history: a build overlapped another or failed, and none has
           \* begun alone since
  changes

vars == <<rows, count, index, built, cache, flags, cmd, shaken, spoilt, changes>>

Ids == 1..MaxId

Calls == {"refresh", "count", "page", "messages"}

Idle ==
  [kind |-> "none", pc |-> "idle", served |-> FALSE, answer |-> {},
   total |-> 0, offset |-> 0, got |-> {}, range |-> {}, want |-> {},
   missing |-> {}, result |-> {}, calm |-> FALSE]

Command ==
  [kind    : {"none", "select", "status", "fetch", "store"},
   pc      : {"idle", "done", "failed"} \cup Calls,
   served  : BOOLEAN,     \* the backend has answered the call under way
   answer  : SUBSET Ids,  \* with these; a count is the number of them
   total   : 0..MaxId,    \* count and total of the loops
   offset  : Nat,
   got     : SUBSET Ids,  \* uid_set and fetched_ids
   range   : SUBSET Ids,  \* the message set of the client
   want    : SUBSET Ids,  \* target_uids
   missing : SUBSET Ids,  \* uncached
   result  : SUBSET Ids,
   calm    : BOOLEAN]     \* history: since it began the backend has not
                          \* changed, no other command has built the index
                          \* and nothing was evicted

TypeOK ==
  /\ rows \subseteq Ids
  /\ count \in 0..MaxId
  /\ index \subseteq Ids
  /\ built \in BOOLEAN
  /\ cache \in Seq(Ids) /\ Len(cache) <= CacheSize
  /\ flags \in [Ids -> {"none", "fetched", "stored"}]
  /\ cmd \in [Commands -> Command]
  /\ shaken \in BOOLEAN
  /\ spoilt \in BOOLEAN
  /\ changes \in 0..MaxChanges

\* A new connection, or one that has selected the mailbox and fetched some.
Init ==
  /\ rows \in {1..n : n \in 0..MaxId}
  /\ built \in BOOLEAN
  /\ index = IF built THEN rows ELSE {}
  /\ count = Cardinality(index)
  /\ cache \in {s \in SeqOf(index \ Broken, CacheSize) : IsInjective(s)}
  /\ flags = [u \in Ids |-> IF u \in ToSet(cache) THEN "fetched" ELSE "none"]
  /\ cmd = [c \in Commands |-> Idle]
  /\ shaken = FALSE
  /\ spoilt = FALSE
  /\ changes = 0

-----------------------------------------------------------------------------
(* The backend.                                                            *)

Disturbed(cs) ==
  [c \in Commands |->
     IF c \in cs THEN [cmd[c] EXCEPT !.calm = FALSE] ELSE cmd[c]]

Change == changes < MaxChanges /\ changes' = changes + 1

Arrive ==
  /\ Change
  /\ MaxId \notin rows
  /\ rows' = rows \cup {Max(rows \cup {0}) + 1}
  /\ cmd' = Disturbed(Commands)
  /\ UNCHANGED <<count, index, built, cache, flags, shaken, spoilt>>

Delete(u) ==
  /\ Change
  /\ u \in rows
  /\ rows' = rows \ {u}
  /\ cmd' = Disturbed(Commands)
  /\ shaken' = TRUE
  /\ UNCHANGED <<count, index, built, cache, flags, spoilt>>

Limit(x) == IF x.total - x.offset < Batch THEN x.total - x.offset ELSE Batch

\* LIMIT limit OFFSET offset of the mails, newest first.
Page(limit, offset) ==
  {u \in rows : LET newer == Cardinality({v \in rows : v > u})
                IN offset <= newer /\ newer < offset + limit}

\* GET /api/mails or /api/sendbox: a page, or the count.
Serve(c) ==
  /\ cmd[c].pc \in Calls /\ ~cmd[c].served
  /\ cmd' = [cmd EXCEPT
       ![c].served = TRUE,
       ![c].answer = IF cmd[c].pc \in {"page", "messages"}
                     THEN Page(Limit(cmd[c]), cmd[c].offset)
                     ELSE rows]
  /\ UNCHANGED <<rows, count, index, built, cache, flags, shaken, spoilt, changes>>

Building(c) == cmd[c].pc \in {"count", "page"}

\* The call times out (imap_http_timeout) or is refused: the command fails.
CallFails(c) ==
  /\ cmd[c].pc \in Calls /\ ~cmd[c].served
  /\ cmd' = [cmd EXCEPT ![c] = [Idle EXCEPT !.kind = cmd[c].kind, !.pc = "failed"]]
  /\ spoilt' = (spoilt \/ Building(c))
  /\ UNCHANGED <<rows, count, index, built, cache, flags, shaken, changes>>

-----------------------------------------------------------------------------
(* The steps that commands share.                                          *)

Asks(x, pc) == [x EXCEPT !.pc = pc, !.served = FALSE, !.answer = {}]

Ends(x, result) ==
  [Idle EXCEPT !.kind = x.kind, !.pc = "done", !.range = x.range,
               !.result = result, !.calm = x.calm]

Answered(c, pc) == cmd[c].pc = pc /\ cmd[c].served

\* _build_uid_index begins with a count.
Builds(c, x) ==
  /\ cmd' = [Disturbed(Commands \ {c}) EXCEPT ![c] = Asks(x, "count")]
  /\ shaken' = FALSE
  /\ spoilt' = \E d \in Commands \ {c} : Building(d)
  /\ UNCHANGED <<index, built, cache, flags>>

\* MessageCache.get and put.
Touch(s, u) == IF u \in ToSet(s) THEN Append(SelectSeq(s, LAMBDA v : v # u), u) ELSE s

Put(s, u) ==
  IF u \in ToSet(s) THEN Touch(s, u)
  ELSE Append(IF Len(s) >= CacheSize THEN Tail(s) ELSE s, u)

Ascending(us) == SetToSortSeq(us, <)

\* fetch answers with those of its messages that are in the cache.
FromCache(c, x, want, put) ==
  LET s == FoldLeft(Put, cache, Ascending(put))
      evicted == (ToSet(cache) \cup put) \ ToSet(cache') # {}
  IN /\ cache' = FoldLeft(Touch, s, Ascending(want))
     /\ cmd' = [Disturbed(IF evicted THEN Commands ELSE {}) EXCEPT
                  ![c] = Ends([x EXCEPT !.calm = @ /\ ~evicted],
                              want \cap ToSet(cache') \cap index')]

Fetch(c, x) ==
  LET want == x.range \cap index'
      missing == want \ ToSet(cache)
  IN IF missing # {} /\ count' # 0
     THEN /\ cmd' = [cmd EXCEPT ![c] =
               [Asks(x, "messages") EXCEPT !.want = want, !.missing = missing,
                                           !.total = count', !.offset = 0, !.got = {}]]
          /\ UNCHANGED cache
     ELSE FromCache(c, x, want, {})

\* FLAGS, +FLAGS or -FLAGS.
Store(c, x) ==
  /\ flags' = [u \in Ids |-> IF u \in x.range \cap index' THEN "stored" ELSE flags[u]]
  /\ cmd' = [cmd EXCEPT ![c] = Ends(x, {})]

\* What a command does when the index is there.
UseIndex(c, x) ==
  \/ x.kind = "fetch" /\ Fetch(c, x) /\ UNCHANGED flags
  \/ x.kind = "store" /\ Store(c, x) /\ UNCHANGED cache
  \/ /\ x.kind \in {"select", "status"}
     /\ cmd' = [cmd EXCEPT ![c] = Ends(x, {})]
     /\ UNCHANGED <<cache, flags>>

-----------------------------------------------------------------------------
(* The commands.                                                           *)

\* SELECT builds the index anew; STATUS and FETCH look whether the count has
\* changed; STORE takes the index there is, as SEARCH does, which only reads.
Begin(c, kind, range) ==
  LET x == [Idle EXCEPT !.kind = kind, !.range = range,
                        !.calm = \A d \in Commands : ~Building(d)]
  IN /\ cmd[c] = Idle
     /\ \/ /\ kind = "select" \/ ~built
           /\ Builds(c, x)
        \/ /\ built /\ kind \in {"status", "fetch"}
           /\ cmd' = [cmd EXCEPT ![c] = Asks(x, "refresh")]
           /\ UNCHANGED <<index, built, cache, flags, shaken, spoilt>>
        \/ /\ built /\ kind = "store"
           /\ UNCHANGED <<index, built, shaken, spoilt>>
           /\ UNCHANGED count
           /\ UseIndex(c, x)
     /\ UNCHANGED <<rows, count, changes>>

\* Mutant: the index is not built again when the count has changed.
Refreshed_WithoutBuild(c) ==
  /\ Answered(c, "refresh")
  /\ count' = Cardinality(cmd[c].answer)
  /\ UNCHANGED <<index, built, shaken, spoilt>>
  /\ UseIndex(c, cmd[c])
  /\ UNCHANGED <<rows, changes>>

\* requestStatus and fetch compare the count.
Refreshed(c) ==
  /\ Answered(c, "refresh")
  /\ count' = Cardinality(cmd[c].answer)
  /\ \/ count' # count /\ Builds(c, cmd[c])
     \/ /\ count' = count
        /\ UNCHANGED <<index, built, shaken, spoilt>>
        /\ UseIndex(c, cmd[c])
  /\ UNCHANGED <<rows, changes>>

\* An empty mailbox has no pages.
Counted(c) ==
  /\ Answered(c, "count")
  /\ count' = Cardinality(cmd[c].answer)
  /\ \/ /\ count' = 0
        /\ index' = {}
        /\ built' = TRUE
        /\ UseIndex(c, cmd[c])
     \/ /\ count' # 0
        /\ cmd' = [cmd EXCEPT ![c] = [Asks(cmd[c], "page") EXCEPT
                                        !.total = count', !.offset = 0, !.got = {}]]
        /\ UNCHANGED <<index, built, cache, flags>>
  /\ UNCHANGED <<rows, shaken, spoilt, changes>>

Paged(c) ==
  LET x == [cmd[c] EXCEPT !.got = @ \cup cmd[c].answer, !.offset = @ + Limit(cmd[c])]
  IN /\ Answered(c, "page")
     /\ UNCHANGED count
     /\ \/ /\ x.offset < x.total
           /\ cmd' = [cmd EXCEPT ![c] = Asks(x, "page")]
           /\ UNCHANGED <<index, built, cache, flags>>
        \/ /\ x.offset >= x.total
           /\ index' = x.got
           /\ built' = TRUE
           /\ UseIndex(c, x)
     /\ UNCHANGED <<rows, shaken, spoilt, changes>>

\* Mutant: an off-by-one at the last page.
MoreMessages_OneShort(x) == x.offset < x.total - 1 /\ x.got # x.missing

\* _fetch_and_cache_messages pages until it has every message it misses.
MoreMessages(x) == x.offset < x.total /\ x.got # x.missing

\* A message that is parsed for the first time is seen.
SeenWhenFetched(us) ==
  [u \in Ids |-> IF u \in us /\ flags[u] = "none" THEN "fetched" ELSE flags[u]]

\* A message that cannot be parsed is logged, and neither marked nor cached.
Fetched(c) ==
  LET x == [cmd[c] EXCEPT !.got = @ \cup (cmd[c].answer \cap cmd[c].missing),
                          !.offset = @ + Limit(cmd[c])]
  IN /\ Answered(c, "messages")
     /\ UNCHANGED index
     /\ \/ /\ MoreMessages(x)
           /\ cmd' = [cmd EXCEPT ![c] = Asks(x, "messages")]
           /\ UNCHANGED <<cache, flags>>
        \/ /\ ~MoreMessages(x)
           /\ flags' = SeenWhenFetched(x.got \ Broken)
           /\ FromCache(c, x, x.want, x.got \ Broken)
     /\ UNCHANGED <<rows, count, built, shaken, spoilt, changes>>

Kinds == {"select", "status", "fetch", "store"}

\* Message sets of a client: all, or the newest that can be.
Ranges(kind) == IF kind \in {"fetch", "store"} THEN {Ids, {MaxId}} ELSE {{}}

Next ==
  \/ Arrive
  \/ \E u \in Ids : Delete(u)
  \/ \E c \in Commands :
       \/ \E kind \in Kinds : \E range \in Ranges(kind) : Begin(c, kind, range)
       \/ Serve(c) \/ CallFails(c)
       \/ Refreshed(c) \/ Counted(c) \/ Paged(c) \/ Fetched(c)

Spec == Init /\ [][Next]_vars

-----------------------------------------------------------------------------
(* Properties.                                                             *)

\* When the number of messages is right, so is the index: it lists every mail
\* of the backend and no other (requestStatus and fetch only compare the
\* count).  A deletion may hide behind an arrival until the next build; a build
\* that overlaps another may leave the older list, and one that fails leaves
\* the list of before under the new count.
IndexCurrent ==
  /\ built /\ count = Cardinality(rows)
  /\ ~shaken /\ ~spoilt
  /\ \A c \in Commands : ~Building(c)
  => index = rows

\* FETCH 1:* answers with every mail it can parse and with no mail the backend
\* does not have, unless the mailbox changed meanwhile, the index was wrong
\* (IndexCurrent) or the cache had to make room
\* (e2e/tests/smtp-proxy/imap-proxy.spec.ts, "FETCH all messages").  A mail
\* whose parsing raises is only logged: its number is never answered.
FetchComplete ==
  [][\A c \in Commands :
       /\ cmd[c].pc # "done" /\ cmd'[c].pc = "done"
       /\ cmd'[c].kind = "fetch" /\ cmd'[c].calm /\ cmd'[c].range = Ids
       /\ ~shaken' /\ ~spoilt'
       => /\ rows' \ Broken \subseteq cmd'[c].result
          /\ cmd'[c].result \subseteq rows']_vars
=============================================================================
