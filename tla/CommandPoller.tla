---------------------------- MODULE CommandPoller ----------------------------
(***************************************************************************)
(* The Telegram command loop (TelegramCommandPoller): getUpdates with an   *)
(* offset, which confirms every update below it to the server, then the    *)
(* updates of the batch one by one.                                        *)
(***************************************************************************)
EXTENDS Integers

CONSTANTS
    MaxUpdates,     \* bound: updates sent to the bot
    MaxStarts       \* bound: starts of the poller after the first

ASSUME PollerAssumption == MaxUpdates \in Nat /\ MaxStarts \in Nat

VARIABLES
    posted,      \* external: updates the server has been sent
    confirmed,   \* external: updates below this one are gone from the server
    offset,      \* _offset; 1 stands for none, which confirms nothing
    batch,       \* the updates still to be handled: [from, to], empty if from > to
    handled,     \* history: how often each update was handled since the start
    tried,       \* history: updates whose handling began, ever
    starts       \* history

pollerVars == <<posted, confirmed, offset, batch, handled, tried, starts>>

Update == 1 .. MaxUpdates
NoBatch == [from |-> 1, to |-> 0]
Empty == batch.from > batch.to

Post ==
    /\ posted < MaxUpdates
    /\ posted' = posted + 1
    /\ UNCHANGED <<confirmed, offset, batch, handled, tried, starts>>

\* get_updates: confirms below the offset, returns some of the rest, in order.
GetUpdates ==
    /\ Empty
    /\ confirmed' = IF offset > confirmed THEN offset ELSE confirmed
    /\ \E to \in confirmed' - 1 .. posted :
        batch' = [from |-> confirmed', to |-> to]
    /\ UNCHANGED <<posted, offset, handled, tried, starts>>

\* Faulty variant of Advanced: the offset moves past the whole batch at once.
AdvancedPastBatch == batch.to + 1

\* The offset is past the update before anything is done for it.
Advanced == batch.from + 1

\* A failure of the handler itself leaves the batch; the rest is fetched again.
Handle ==
    /\ ~Empty
    /\ offset' = Advanced
    /\ tried' = tried \union {batch.from}
    /\ handled' = [handled EXCEPT ![batch.from] = IF @ < 2 THEN @ + 1 ELSE @]
    /\ batch' \in {[batch EXCEPT !.from = @ + 1], NoBatch}
    /\ UNCHANGED <<posted, confirmed, starts>>

\* A stop cancels the poll or the handling; a new poller knows no offset.
StartAgain ==
    /\ starts < MaxStarts
    /\ starts' = starts + 1
    /\ offset' = 1 /\ batch' = NoBatch /\ handled' = [u \in Update |-> 0]
    /\ UNCHANGED <<posted, confirmed, tried>>

PollerInit ==
    /\ posted = 0 /\ confirmed = 1 /\ offset = 1 /\ batch = NoBatch
    /\ handled = [u \in Update |-> 0] /\ tried = {} /\ starts = 0

PollerNext == Post \/ GetUpdates \/ Handle \/ StartAgain
PollerSpec == PollerInit /\ [][PollerNext]_pollerVars

(***************************************************************************)
(* Properties.                                                             *)
(***************************************************************************)

\* Every variable has its type.
PollerTypeOK ==
    /\ posted \in 0 .. MaxUpdates /\ confirmed \in 1 .. MaxUpdates + 1
    /\ offset \in 1 .. MaxUpdates + 1
    /\ batch \in [from : 1 .. MaxUpdates + 1, to : 0 .. MaxUpdates]
    /\ handled \in [Update -> 0 .. 2] /\ tried \subseteq Update /\ starts \in 0 .. MaxStarts

\* An update is gone from the server only when its handling has begun, in this
\* poller or an earlier one: a failing update loses none behind it.
NothingConfirmedUnseen == \A u \in Update : u < confirmed => u \in tried

\* One poller handles a command once (a report is built and sent once), however
\* the batches are cut (telegram_command_poller.py _loop).
HandledOnce == \A u \in Update : handled[u] <= 1

\* Every command is answered or tried at last.
CommandsAreServed == \A u \in Update : posted >= u ~> u \in tried

\* A command is neither lost nor handled twice by the poller that saw it.
EachCommandOnce == NothingConfirmedUnseen /\ HandledOnce
=============================================================================
