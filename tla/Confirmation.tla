---------------------------- MODULE Confirmation ----------------------------
(***************************************************************************)
(* Contacts and the tokens that confirm them: registration, the messages   *)
(* Confirmation.request sends, confirm, and the reset of a password.  A    *)
(* token is stored under 'ses:<contact>:<end of nonce>' and is accepted    *)
(* while it is what that key holds.  A message may be used at any time     *)
(* after it was sent, whatever has happened to the contact since.          *)
(*                                                                         *)
(* A request takes less than the unit of time.                             *)
(***************************************************************************)
EXTENDS Integers, FiniteSets

CONSTANTS
    Server,     \* requests in progress
    Contact,    \* ids of contacts
    KindOf,     \* [Contact -> {"email", "sms"}]
    OwnerOf,    \* [Contact -> Uid]
    Uid,
    Initial,    \* what users may have registered before: [Contact -> [info, status]]
    Info,       \* addresses
    Nonce,      \* the nonces drawn for an e-mail
    ShortNonce, \* the nonce of every text message
    EndOf,      \* [nonces -> their last three characters]
    TokenTtl,   \* config.TOKEN_TIMEOUT
    Nothing,    \* an absent record, address or key
    MaxMails,   \* bound: messages sent
    MaxEdits,   \* bound: contacts created, edited, deleted or restored
    MaxDay      \* bound: the model stops here

Statuses == {"active", "unconfirmed", "disabled"}
Row(statuses) == [info : Info, status : statuses]
Tokens == [id : Nat, contact : Contact, info : Info, nonce : Nonce \cup {ShortNonce}, at : Nat]

ASSUME ConfirmationAssumption ==
    /\ IsFiniteSet(Server)
    /\ Initial \subseteq [Contact -> {Nothing} \cup Row(Statuses \ {"active"})]
    /\ Nothing \notin Tokens \cup [info : Info, at : Nat]
    /\ TokenTtl \in Nat \ {0}
    /\ MaxMails \in Nat /\ MaxEdits \in Nat /\ MaxDay \in Nat

VARIABLES
    day,       \* time
    contact,   \* [info, status] of each contact in the database
    identity,  \* person.identity of each user
    account,   \* "none", "blank" (no password yet) or "set"
    tokens,    \* what redis holds under each key
    mailed,    \* the tokens that were sent out
    serving,   \* per process: its request
    edits,     \* how many contacts were created, edited, deleted or restored
    edited,    \* per contact: when its address was last written
    confirmed, \* per contact: the address a token confirmed last, and when
    declared,  \* contacts whose status the owner has set to active without a token
    resets     \* per token: the passwords set by requests that have deleted it

confirmVars == <<day, contact, identity, account, tokens, mailed, serving,
                 edits, edited, confirmed, declared, resets>>

Waiting == [step |-> "idle"]
Doing(p, step) == serving[p].step = step
Reply(p) == serving' = [serving EXCEPT ![p] = Waiting]
Goto(p, step) == serving' = [serving EXCEPT ![p].step = step]

Suffix(nonce) == EndOf[nonce]
Keys == Contact \X {EndOf[n] : n \in Nonce \cup {ShortNonce}}
KeyFor(tok) == <<tok.contact, Suffix(tok.nonce)>>

Primaries(u) == {contact[c] : c \in {d \in Contact :
                    OwnerOf[d] = u /\ KindOf[d] = "email" /\ contact[d] # Nothing}}

\* The messages of earlier registrations are lost.
ConfirmInit ==
    /\ day = 0
    /\ contact \in Initial
    /\ identity = [u \in Uid |->
          IF Primaries(u) = {} THEN Nothing ELSE (CHOOSE x \in Primaries(u) : TRUE).info]
    /\ account = [u \in Uid |-> IF Primaries(u) = {} THEN "none" ELSE "blank"]
    /\ tokens = [k \in Keys |-> Nothing]
    /\ mailed = {}
    /\ serving = [p \in Server |-> Waiting]
    /\ edits = 0
    /\ edited = [c \in Contact |-> 0]
    /\ confirmed = [c \in Contact |-> Nothing]
    /\ declared = {}
    /\ resets = [i \in 1..MaxMails |-> 0]

-----------------------------------------------------------------------------
\* uniq_info_type
FreeFor(c, info) ==
    \A d \in Contact \ {c} :
        contact[d] # Nothing /\ KindOf[d] = KindOf[c] => contact[d].info # info

Write(c, info, status) ==
    /\ edits < MaxEdits
    /\ edits' = edits + 1
    /\ FreeFor(c, info)
    /\ contact' = [contact EXCEPT ![c] = [info |-> info, status |-> status]]
    /\ edited' = [edited EXCEPT ![c] = day]

Declare(c, status) ==
    declared' = IF status = "active" THEN declared \cup {c} ELSE declared \ {c}

\* The contact is read for the message, which goes out next; after that a
\* registration adds the account.
ThenAsk(p, c, info, after) ==
    serving' = [serving EXCEPT ![p] =
        [step |-> "issue", contact |-> c, info |-> info, after |-> after]]

\* register: the person and the primary contact are committed together.
Register(p, c, info) ==
    LET u == OwnerOf[c] IN
    /\ Doing(p, "idle")
    /\ KindOf[c] = "email" /\ account[u] = "none"
    /\ IF identity[u] = Nothing
       THEN /\ contact[c] = Nothing
            /\ \A v \in Uid : identity[v] # info
            /\ Write(c, info, "unconfirmed")
            /\ declared' = declared \ {c}
            /\ identity' = [identity EXCEPT ![u] = info]
       ELSE /\ info = identity[u] /\ contact[c] # Nothing /\ contact[c].info = info
            /\ UNCHANGED <<contact, identity, edits, edited, declared>>
    /\ ThenAsk(p, c, info, "account")
    /\ UNCHANGED <<day, account, tokens, mailed, confirmed, resets>>

\* A user that has an account adds another contact, and may say it is active.
AddContact(p, c, info, status) ==
    /\ Doing(p, "idle")
    /\ account[OwnerOf[c]] # "none"
    /\ contact[c] = Nothing
    /\ Write(c, info, status)
    /\ Declare(c, status)
    /\ ThenAsk(p, c, info, "end")
    /\ UNCHANGED <<day, identity, account, tokens, mailed, confirmed, resets>>

\* update_contact: whoever's identity the old address was takes the new one.
StillActive(c, disabled) == contact[c].status         \* mutant: status kept
NewStatus(c, disabled) == IF disabled THEN "disabled" ELSE "unconfirmed"

EditContact(p, c, info, disabled) ==
    /\ Doing(p, "idle")
    /\ contact[c] # Nothing
    /\ Write(c, info, NewStatus(c, disabled))
    /\ declared' = declared \ {c}
    /\ identity' = [u \in Uid |-> IF identity[u] = contact[c].info THEN info ELSE identity[u]]
    /\ ThenAsk(p, c, info, "end")
    /\ UNCHANGED <<day, account, tokens, mailed, confirmed, resets>>

\* A deletion, which disables a contact, and Trashcan.update, which writes to any
\* contact, deleted or not, the status it is given.  No message goes out.
SetStatus(c, status) ==
    /\ contact[c] # Nothing
    /\ edits < MaxEdits
    /\ edits' = edits + 1
    /\ contact' = [contact EXCEPT ![c].status = status]
    /\ Declare(c, status)
    /\ UNCHANGED <<day, identity, account, tokens, mailed, serving, edited,
                   confirmed, resets>>

\* confirmation_get for any contact, forgot_password for the primary one.
AskAgain(p, c) ==
    /\ Doing(p, "idle")
    /\ contact[c] # Nothing
    /\ ThenAsk(p, c, contact[c].info, "end")
    /\ UNCHANGED <<day, contact, identity, account, tokens, mailed, edits,
                   edited, confirmed, declared, resets>>

-----------------------------------------------------------------------------
(* Confirmation.request *)

\* The token is sent whether or not create() could store it: the key may be in
\* use, or redis out of reach.
Issue(p, nonce, reached) ==
    LET r == serving[p]
        tok == [id |-> Cardinality(mailed) + 1, contact |-> r.contact,
                info |-> r.info, nonce |-> nonce, at |-> day]
    IN  /\ Doing(p, "issue")
        /\ Cardinality(mailed) < MaxMails
        /\ KindOf[r.contact] = "sms" <=> nonce = ShortNonce
        /\ tokens' = IF reached /\ tokens[KeyFor(tok)] = Nothing
                     THEN [tokens EXCEPT ![KeyFor(tok)] = tok] ELSE tokens
        /\ mailed' = mailed \cup {tok}
        /\ IF r.after = "account" THEN Goto(p, "account") ELSE Reply(p)
        /\ UNCHANGED <<day, contact, identity, account, edits, edited, confirmed,
                       declared, resets>>

\* account_add: one account a person, with an empty password.
AddAccount(p) ==
    LET u == OwnerOf[serving[p].contact] IN
    /\ Doing(p, "account")
    /\ account' = [account EXCEPT ![u] = IF @ = "none" THEN "blank" ELSE @]
    /\ Reply(p)
    /\ UNCHANGED <<day, contact, identity, tokens, mailed, edits, edited, confirmed,
                   declared, resets>>

-----------------------------------------------------------------------------
(* Confirmation.confirm, alone or for change_password *)

Valid(tok) == day - tok.at <= TokenTtl /\ tokens[KeyFor(tok)] = tok

\* change_password names a user as well; whose contact the token is for is not
\* asked.
Present(p, tok, clear, u) ==
    /\ Doing(p, "idle")
    /\ tok \in mailed /\ Valid(tok)
    /\ clear => account[u] # "none"
    /\ serving' = [serving EXCEPT ![p] =
          [step |-> "confirm", token |-> tok, clear |-> clear, uid |-> u, cleared |-> FALSE]]
    /\ UNCHANGED <<day, contact, identity, account, tokens, mailed, edits,
                   edited, confirmed, declared, resets>>

\* Whatever the address and the status of the contact are by now.
Confirm(p) ==
    LET tok == serving[p].token IN
    /\ Doing(p, "confirm")
    /\ contact' = [contact EXCEPT ![tok.contact].status = "active"]
    /\ confirmed' = [confirmed EXCEPT ![tok.contact] = [info |-> tok.info, at |-> day]]
    /\ declared' = declared \ {tok.contact}
    /\ IF serving[p].clear THEN Goto(p, "clear") ELSE Reply(p)
    /\ UNCHANGED <<day, identity, account, tokens, mailed, edits, edited, resets>>

\* delete() takes away whatever the key holds.
ClearedByUid(p) == UNCHANGED tokens                  \* mutant: the key made of the uid
Cleared(p) == tokens' = [tokens EXCEPT ![KeyFor(serving[p].token)] = Nothing]

\* A delete that does not reach redis is logged, and the request goes on.
Clear(p, reached) ==
    /\ Doing(p, "clear")
    /\ IF reached THEN Cleared(p) ELSE UNCHANGED tokens
    /\ serving' = [serving EXCEPT ![p].step = "password", ![p].cleared = reached]
    /\ UNCHANGED <<day, contact, identity, account, mailed, edits, edited, confirmed,
                   declared, resets>>

\* The password of the user named; one with a password may set it with the old one
\* as well, which changes nothing here.
SetPassword(p) ==
    /\ Doing(p, "password")
    /\ account' = [account EXCEPT ![serving[p].uid] = "set"]
    /\ resets' = IF serving[p].cleared THEN [resets EXCEPT ![serving[p].token.id] = @ + 1]
                 ELSE resets
    /\ Reply(p)
    /\ UNCHANGED <<day, contact, identity, tokens, mailed, edits, edited, confirmed, declared>>

\* An exception ends the request (no session could be created, the database or
\* a process goes down) with what it has committed.
Break(p) ==
    /\ ~Doing(p, "idle")
    /\ Reply(p)
    /\ UNCHANGED <<day, contact, identity, account, tokens, mailed, edits,
                   edited, confirmed, declared, resets>>

NextDay ==
    /\ day < MaxDay
    /\ \A p \in Server : Doing(p, "idle")
    /\ day' = day + 1
    /\ tokens' = [k \in Keys |-> IF tokens[k] # Nothing /\ tokens[k].at + TokenTtl > day'
                                 THEN tokens[k] ELSE Nothing]
    /\ UNCHANGED <<contact, identity, account, mailed, serving, edits, edited,
                   confirmed, declared, resets>>

\* The bounds are used up.
NoMoreMail ==
    /\ day = MaxDay
    /\ \A p \in Server : Doing(p, "idle") \/ Doing(p, "issue")
    /\ UNCHANGED confirmVars

ConfirmNext ==
    \/ \E p \in Server :
         \/ \E c \in Contact, info \in Info :
              \/ Register(p, c, info)
              \/ \E status \in {"active", "unconfirmed"} : AddContact(p, c, info, status)
              \/ \E disabled \in BOOLEAN : EditContact(p, c, info, disabled)
         \/ \E c \in Contact : AskAgain(p, c)
         \/ \E nonce \in Nonce \cup {ShortNonce}, reached \in BOOLEAN : Issue(p, nonce, reached)
         \/ AddAccount(p)
         \/ \E tok \in mailed, clear \in BOOLEAN, u \in Uid : Present(p, tok, clear, u)
         \/ \E reached \in BOOLEAN : Clear(p, reached)
         \/ Confirm(p) \/ SetPassword(p) \/ Break(p)
    \/ \E c \in Contact, status \in {"active", "disabled"} : SetStatus(c, status)
    \/ NextDay
    \/ NoMoreMail

ConfirmSpec == ConfirmInit /\ [][ConfirmNext]_confirmVars

-----------------------------------------------------------------------------
(***************************************************************************)
(* A contact is active because its owner said so (in adding it, or in the  *)
(* trash, and its address was not written since), or because a token       *)
(* confirmed its present address or, for an earlier address, came no later *)
(* than the life of a token after the change: confirm compares the token   *)
(* with the stored one, never with the contact.                            *)
(***************************************************************************)
ConfirmedTimely ==
    \A c \in Contact :
        (contact[c] # Nothing /\ contact[c].status = "active" /\ c \notin declared) =>
            /\ confirmed[c] # Nothing
            /\ \/ confirmed[c].info = contact[c].info
               \/ confirmed[c].at \in edited[c]..(edited[c] + TokenTtl)

(***************************************************************************)
(* Of the requests that take a token away before they set a password there *)
(* are no more than there are requests at a time: each has read the token  *)
(* before the first one deleted it.  (A request whose delete did not reach *)
(* redis sets its password too, and leaves the token to the next one.)     *)
(***************************************************************************)
TokenUsesBounded == \A i \in 1..MaxMails : resets[i] <= Cardinality(Server)
=============================================================================
