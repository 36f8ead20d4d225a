-------------------------- MODULE MessageContract --------------------------
(***************************************************************************)
(* What managed messages promise their clients, without workers, leases,   *)
(* retries or the state a row is in: a key has at most one definition at a *)
(* time, numbered by its revision; the id of a Discord message may be      *)
(* attached to it only while that message belongs to the key and stands in *)
(* the channel of the definition; the definition may be reported as        *)
(* verified, and any change of it takes the report back; an archived key   *)
(* is never touched again.                                                 *)
(*                                                                         *)
(* ManagedMessages implements it (ManagedMessagesProps, the refinement     *)
(* mapping Contract).                                                      *)
(***************************************************************************)
EXTENDS Naturals

CONSTANTS
    Keys,        \* message keys
    Channels,    \* channels a definition may name
    Contents,    \* contents a definition may have
    MessageIds,  \* ids Discord may give
    NoMessage,   \* no id attached
    NoChannel,   \* no channel
    NoContent,   \* no content
    NoHome       \* an id Discord has not given to anybody

VARIABLES
    promise,  \* promise[k]: the definition of key k, and what is said of it
    home      \* home[m]: the key and the channel message m was created for

vars == <<promise, home>>

Undefined ==
    [phase |-> "undefined", revision |-> 0, channel |-> NoChannel,
     content |-> NoContent, message |-> NoMessage, verified |-> FALSE]

Init ==
    /\ promise = [k \in Keys |-> Undefined]
    /\ home = [m \in MessageIds |-> NoHome]

Active(k) == promise[k].phase = "active"

\* Message m may be attached to k as it is defined now.
Fits(m, k) == home[m] = [key |-> k, channel |-> promise[k].channel]

Define(k, channel, content) ==
    /\ promise[k] = Undefined
    /\ promise' = [promise EXCEPT ![k] =
           [Undefined EXCEPT !.phase = "active", !.revision = 1,
                             !.channel = channel, !.content = content]]
    /\ UNCHANGED home

\* The message survives a change of the content, not a change of the channel.
Redefine(k, channel, content) ==
    /\ Active(k)
    /\ promise' = [promise EXCEPT ![k] =
           [phase |-> "active", revision |-> @.revision + 1,
            channel |-> channel, content |-> content,
            message |-> IF channel = @.channel THEN @.message ELSE NoMessage,
            verified |-> FALSE]]
    /\ UNCHANGED home

Archive(k) ==
    /\ Active(k)
    /\ promise' = [promise EXCEPT ![k] =
           [@ EXCEPT !.phase = "archived", !.revision = promise[k].revision + 1,
                     !.verified = FALSE]]
    /\ UNCHANGED home

\* A new message is created for a key, in whatever channel its creator believed.
Issue(m, k, channel) ==
    /\ home[m] = NoHome
    /\ home' = [home EXCEPT ![m] = [key |-> k, channel |-> channel]]
    /\ UNCHANGED promise

\* The report is taken back, of several keys at once.
Doubt(doubted) ==
    /\ \A k \in doubted : Active(k)
    /\ promise' = [k \in Keys |->
           IF k \in doubted THEN [promise[k] EXCEPT !.verified = FALSE]
                            ELSE promise[k]]
    /\ UNCHANGED home

\* Message m is attached, and verified or not.
Attach(k, m, verified) ==
    /\ Active(k)
    /\ Fits(m, k)
    /\ promise' = [promise EXCEPT ![k] =
           [@ EXCEPT !.message = m, !.verified = verified]]
    /\ UNCHANGED home

Next ==
    \/ \E k \in Keys :
        \/ \E channel \in Channels, content \in Contents :
            Define(k, channel, content) \/ Redefine(k, channel, content)
        \/ Archive(k)
        \/ \E m \in MessageIds, verified \in BOOLEAN : Attach(k, m, verified)
    \/ \E doubted \in SUBSET Keys : Doubt(doubted)
    \/ \E m \in MessageIds, k \in Keys, channel \in Channels \union {NoChannel} :
        Issue(m, k, channel)

Spec == Init /\ [][Next]_vars
=============================================================================
