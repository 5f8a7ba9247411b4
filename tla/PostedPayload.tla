--------------------------- MODULE PostedPayload ---------------------------
(***************************************************************************)
(* The posted-payload registry of src/src/Support/PostedPayload.h.         *)
(*                                                                         *)
(* A window message cannot own memory, and anyone may forge one.  Its      *)
(* LPARAM is therefore a token into a bounded process-wide table that owns *)
(* the payload until the window procedure takes it, the sender takes it    *)
(* back, or the window drains it.  Every operation below that touches the  *)
(* table is one critical section of PayloadRegistry::mutex; payloads are   *)
(* destroyed after the unlock, in a step of their own.                     *)
(*                                                                         *)
(* A payload stands for one call of PostMessagePayload or of               *)
(* SendMessagePayload; a "kind" is a message number and the payload type   *)
(* that it carries.                                                        *)
(***************************************************************************)
EXTENDS Naturals, FiniteSets

CONSTANTS
  Payload,      \* the payloads a run may send, each once
  Window,       \* the HWND values
  Kind,         \* the registered messages, each with its payload type
  Slots,        \* size of PayloadRegistry::entries (128)
  WindowSlots,  \* size of PayloadRegistry::windows (128)
  MaxToken,     \* the token that is never issued (the largest LPARAM)
  MaxLife,      \* bound on how often one HWND value is used
  MaxForged,    \* bound on the forged messages under way
  None          \* no message

ASSUME RegistryAssumption ==
  /\ IsFiniteSet(Payload) /\ IsFiniteSet(Window)
  /\ Slots \in Nat /\ WindowSlots \in Nat
  /\ MaxToken \in Nat \ {0}
  /\ MaxLife \in Nat /\ MaxForged \in Nat

VARIABLES
  entries,   \* the occupied PayloadEntry slots
  windows,   \* the registered windows
  next,      \* the next token
  place,     \* where each payload is
  open,      \* the windows that exist
  life,      \* how often each HWND value has been destroyed (history)
  inbox,     \* the messages waiting to be processed, posted or sent
  sender,    \* how far each payload's sender is
  call       \* the message each sender posted or sent

registry == <<entries, windows, next, place>>
system   == <<open, life, inbox>>
senders  == <<sender, call>>
vars     == <<registry, system, senders>>

Token   == 1 .. MaxToken - 1
Entry   == [token : Token, window : Window, kind : Kind, payload : Payload, life : Nat]
Message == [window : Window, kind : Kind, token : Token, forged : BOOLEAN]

\* "own": the sender's unique_ptr; "removed": out of the table, to be destroyed.
Place  == {"own", "table", "taken", "removed", "gone"}
Sender == {"new", "posted", "registered", "sending", "answered", "failed", "true", "false"}

TypeOK ==
  /\ entries \subseteq Entry
  /\ windows \subseteq Window
  /\ next \in 1 .. MaxToken
  /\ place \in [Payload -> Place]
  /\ open \subseteq Window
  /\ life \in [Window -> Nat]
  /\ inbox \subseteq Message
  /\ sender \in [Payload -> Sender]
  /\ call \in [Payload -> Message \cup {None}]

Init ==
  /\ entries = {}
  /\ windows = {}
  /\ next = 1
  /\ place = [p \in Payload |-> "own"]
  /\ open = {}
  /\ life = [w \in Window |-> 0]
  /\ inbox = {}
  /\ sender = [p \in Payload |-> "new"]
  /\ call = [p \in Payload |-> None]

-----------------------------------------------------------------------------
(* Critical sections of the registry.                                      *)

EntriesOf(p)   == {e \in entries : e.payload = p}
Move(p, to)    == place' = [place EXCEPT ![p] = to]
Advance(p, to) == sender' = [sender EXCEPT ![p] = to]

\* Mutant of Accepts: lets the token counter run over.
AcceptsForEver(w) == w \in windows /\ Cardinality(entries) < Slots

\* May a payload be registered for w now?
Accepts(w) ==
  /\ w \in windows
  /\ next < MaxToken
  /\ Cardinality(entries) < Slots

NewEntry(p, w, k) == [token |-> next, window |-> w, kind |-> k, payload |-> p, life |-> life[w]]
NewMessage(w, k)  == [window |-> w, kind |-> k, token |-> next, forged |-> FALSE]

\* TakeMessagePayload matches the token's own window, message and type.
Matches(e, m) == e.token = m.token /\ e.window = m.window /\ e.kind = m.kind

InitPostedPayloadWindow(w) ==
  /\ w \in open
  /\ w \notin windows /\ Cardinality(windows) < WindowSlots
  /\ windows' = windows \cup {w}
  /\ UNCHANGED <<entries, next, place>>

\* Mutant of DrainPostedPayloadsForWindow: forgets the window and keeps its entries.
DrainForgetsEntries(w) ==
  /\ windows' = windows \ {w}
  /\ UNCHANGED <<entries, next, place>>

\* The window's thread forgets the window and takes all its payloads out.
DrainPostedPayloadsForWindow(w) ==
  LET removed == {e \in entries : e.window = w} IN
  /\ windows' = windows \ {w}
  /\ entries' = entries \ removed
  /\ place' = [p \in Payload |-> IF \E e \in removed : e.payload = p THEN "removed" ELSE place[p]]
  /\ UNCHANGED next

\* Mutant of TakeMessagePayload: does not clear the slot.
TakeKeepsEntry(m) ==
  LET found == {e \in entries : Matches(e, m)} IN
  /\ place' = [p \in Payload |-> IF \E e \in found : e.payload = p THEN "taken" ELSE place[p]]
  /\ UNCHANGED <<entries, windows, next>>

TakeMessagePayload(m) ==
  LET found == {e \in entries : Matches(e, m)} IN
  /\ entries' = entries \ found
  /\ place' = [p \in Payload |-> IF \E e \in found : e.payload = p THEN "taken" ELSE place[p]]
  /\ UNCHANGED <<windows, next>>

\* Mutant of ReclaimMessagePayload: leaves the payload to a late receiver.
ReclaimNothing(p) == p \in Payload /\ UNCHANGED registry

\* ReclaimMessagePayload: the sender removes what nobody took.
ReclaimMessagePayload(p) ==
  /\ entries' = entries \ EntriesOf(p)
  /\ IF EntriesOf(p) # {} THEN Move(p, "removed") ELSE UNCHANGED place
  /\ UNCHANGED <<windows, next>>

\* A removed payload is deleted by whoever removed it, a taken one by its
\* receiver, a refused one by its sender; none of them holds the lock.
Destroy(p) ==
  /\ \/ place[p] \in {"removed", "taken"}
     \/ place[p] = "own" /\ sender[p] = "false"
  /\ Move(p, "gone")
  /\ UNCHANGED <<entries, windows, next>>

-----------------------------------------------------------------------------
(* PostMessagePayload registers and posts in one critical section.  A      *)
(* token is spent even if the message cannot be posted.                    *)

Register(p, w, k) ==
  /\ entries' = entries \cup {NewEntry(p, w, k)}
  /\ call' = [call EXCEPT ![p] = NewMessage(w, k)]
  /\ next' = next + 1
  /\ Move(p, "table")
  /\ UNCHANGED windows

PostMessagePayload(p, w, k) ==
  /\ Accepts(w) /\ w \in open
  /\ Register(p, w, k)
  /\ inbox' = inbox \cup {NewMessage(w, k)}
  /\ UNCHANGED <<open, life>>

PostFails(w) ==
  /\ Accepts(w)
  /\ next' = next + 1
  /\ UNCHANGED <<entries, windows, place>>

-----------------------------------------------------------------------------
(* The senders, the windows' threads and the window manager.               *)

Post(p, w, k) ==
  /\ sender[p] = "new"
  /\ PostMessagePayload(p, w, k)
  /\ Advance(p, "posted")

\* Mutant of Refused: keeps the entry of a message that could not be posted.
RefusedKeepsEntry(p, w) ==
  /\ sender[p] = "new"
  /\ \/ ~Accepts(w) /\ UNCHANGED <<registry, call>>
     \/ Accepts(w) /\ \E k \in Kind : Register(p, w, k)
  /\ Advance(p, "false")
  /\ UNCHANGED system

Refused(p, w) ==
  /\ sender[p] = "new"
  /\ \/ ~Accepts(w) /\ UNCHANGED registry
     \/ PostFails(w)
  /\ Advance(p, "false")
  /\ UNCHANGED <<system, call>>

\* SendMessagePayload registers, unlocks and only then sends.
SendRegisters(p, w, k) ==
  /\ sender[p] = "new"
  /\ Accepts(w)
  /\ Register(p, w, k)
  /\ Advance(p, "registered")
  /\ UNCHANGED system

Send(p) ==
  LET w == call[p].window IN
  /\ sender[p] = "registered"
  /\ IF w \in open
     THEN inbox' = inbox \cup {call[p]} /\ Advance(p, "sending")
     ELSE UNCHANGED inbox /\ Advance(p, "failed")
  /\ UNCHANGED <<registry, open, life, call>>

SendReturns(p) ==
  /\ sender[p] = "answered"
  /\ Advance(p, "true")
  /\ UNCHANGED <<registry, system, call>>

\* Mutant of SendTimesOut: returns FALSE at once.
SendTimesOutAtOnce(p) ==
  /\ sender[p] \in {"sending", "answered"}
  /\ Advance(p, "false")
  /\ UNCHANGED <<registry, system, call>>

\* The answer may already be on its way when the sender stops waiting.
SendTimesOut(p) ==
  /\ sender[p] \in {"sending", "answered"}
  /\ Advance(p, "failed")
  /\ UNCHANGED <<registry, system, call>>

SendReclaims(p) ==
  /\ sender[p] = "failed"
  /\ ReclaimMessagePayload(p)
  /\ Advance(p, "false")
  /\ UNCHANGED <<system, call>>

\* The window's thread processes a message of its queue.
Receive(m) ==
  /\ m \in inbox
  /\ inbox' = inbox \ {m}
  /\ TakeMessagePayload(m)
  /\ sender' = [p \in Payload |-> IF call[p] = m /\ sender[p] = "sending" THEN "answered" ELSE sender[p]]
  /\ UNCHANGED <<open, life, call>>

Delete(p) == Destroy(p) /\ UNCHANGED <<system, senders>>
Attach(w) == InitPostedPayloadWindow(w) /\ UNCHANGED <<system, senders>>
Detach(w) == w \in windows /\ DrainPostedPayloadsForWindow(w) /\ UNCHANGED <<system, senders>>

\* Another program may send any window any of the messages, with any token.
Forge(w, k, n) ==
  /\ w \in open
  /\ Cardinality({m \in inbox : m.forged}) < MaxForged
  /\ inbox' = inbox \cup {[window |-> w, kind |-> k, token |-> n, forged |-> TRUE]}
  /\ UNCHANGED <<registry, open, life, senders>>

OpenWindow(w) ==
  /\ w \notin open /\ life[w] < MaxLife
  /\ open' = open \cup {w}
  /\ UNCHANGED <<registry, life, inbox, senders>>

\* A host detaches in WM_NCDESTROY; then the window's messages go with it.  A message that is
\* being processed has left the inbox: its sender still waits for the answer.
CloseWindow(w) ==
  /\ w \in open /\ w \notin windows
  /\ open' = open \ {w}
  /\ life' = [life EXCEPT ![w] = @ + 1]
  /\ inbox' = {m \in inbox : m.window # w}
  /\ sender' = [p \in Payload |-> IF sender[p] = "sending" /\ call[p] \in inbox /\ call[p].window = w THEN "failed" ELSE sender[p]]
  /\ UNCHANGED <<registry, call>>

Next ==
  \/ \E p \in Payload, w \in Window, k \in Kind : Post(p, w, k) \/ SendRegisters(p, w, k)
  \/ \E p \in Payload, w \in Window : Refused(p, w)
  \/ \E p \in Payload : \/ Send(p) \/ SendReturns(p) \/ SendTimesOut(p)
                        \/ SendReclaims(p) \/ Delete(p)
  \/ \E m \in inbox : Receive(m)
  \/ \E w \in Window : Attach(w) \/ Detach(w) \/ OpenWindow(w) \/ CloseWindow(w)
  \/ \E w \in Window, k \in Kind, n \in Token : Forge(w, k, n)

Spec == Init /\ [][Next]_vars

-----------------------------------------------------------------------------
(* Properties.                                                             *)

\* A payload has one owner: the table holds it exactly while no sender,
\* receiver or drain does, and holds it once (PostedPayload.h:99-208). A
\* payload owned twice is freed twice, one owned by nobody is leaked.
OneOwner ==
  /\ \A p \in Payload : Cardinality(EntriesOf(p)) = IF place[p] = "table" THEN 1 ELSE 0
  /\ \A e, f \in entries : e.token = f.token => e = f

\* A window leaves no payload behind: whatever is in the table belongs to a
\* registered window that has not been destroyed since, so a reused HWND value
\* never receives a payload meant for its predecessor (PostedPayload.h:77-97).
NoEntryOutlivesItsWindow ==
  \A e \in entries : e.window \in windows /\ e.window \in open /\ e.life = life[e.window]

\* A slot of the bounded table is held only while something can still free
\* it: a message on its way to the window, or a sender that has not given up.
NoOrphanedSlot ==
  \A e \in entries :
    \/ \E m \in inbox : ~m.forged /\ Matches(e, m)
    \/ sender[e.payload] \in {"registered", "sending", "answered", "failed"}

\* Once SendMessagePayload has told its caller FALSE, the payload is never
\* handed to the receiver: "a late delivery answers nothing"
\* (PostedPayload.h:154-156).
GivenUpIsNeverTaken ==
  [][\A p \in Payload : sender[p] = "false" => ~(place[p] # "taken" /\ place'[p] = "taken")]_vars

-----------------------------------------------------------------------------
(* The abstract specification.                                             *)

Holder(p) ==
  CASE place[p] = "own"   -> "sender"
    [] place[p] = "table" -> "registry"
    [] place[p] = "taken" -> "receiver"
    [] OTHER              -> "nobody"

Answer(p) ==
  CASE sender[p] \in {"posted", "true"} -> "true"
    [] sender[p] = "false"              -> "false"
    [] OTHER                            -> "none"

Transfer == INSTANCE PayloadTransfer WITH
  holder <- [p \in Payload |-> Holder(p)],
  answer <- [p \in Payload |-> Answer(p)]

\* The registry implements PayloadTransfer: with its tokens, slots, timeouts, drains and forged
\* messages it still hands each payload to at most one receiver, and to none whose sender was told
\* FALSE (PostedPayload.h:50-209).
TransferSpec == Transfer!Spec

=============================================================================
