------------------------------- MODULE MCRooms ------------------------------
(* Who may do what where, checked for safety in one run: operators, policies *)
(* and inboxes; chats and their local ids; and the access of harnesses and   *)
(* operators to messages.  They share no state, so a behaviour belongs to    *)
(* one part, chosen at the start, and only that part takes steps.            *)
EXTENDS Inboxes, Chats, Access, TLC

VARIABLE part

\* Callers, requests, operators, inboxes, identities and groups are only
\* compared.
RoomsSymmetry ==
    Permutations(DirCallers) \union Permutations(OperatorIds) \union Permutations(InboxIds)

\* A part that was not chosen stays in one of its initial states.  The daemon
\* starts with a local core: requests find it ready after the first upgrade.
RoomsInit ==
    /\ part \in {"inboxes", "chats", "access"}
    /\ InboxesInit
    /\ ChatsInit /\ (part # "chats" => \A n \in ChatIdentities : memberOf[n] = {})
    /\ AccessInit /\ acore.state = "ready-local"

RoomsNext ==
    /\ UNCHANGED part
    /\ \/ part = "inboxes" /\ UNCHANGED <<chatVars, accessVars>> /\ InboxesNext
       \/ part = "chats" /\ UNCHANGED <<dirVars, accessVars>> /\ ChatsNext
       \/ part = "access" /\ UNCHANGED <<dirVars, chatVars>> /\ AccessNext

RoomsSpec == RoomsInit /\ [][RoomsNext]_<<part, dirVars, chatVars, accessVars>>

=============================================================================
