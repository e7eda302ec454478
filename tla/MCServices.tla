----------------------------- MODULE MCServices -----------------------------
(***************************************************************************)
(* The services that share no state, each with its small instance: of them *)
(* one is chosen at the start and runs, and the others stay as they were,  *)
(* so that their state spaces add up and do not multiply.  All of them run *)
(* in the same two processes.                                              *)
(***************************************************************************)
EXTENDS TLC, Confirmation, Login, ApiKey, Upload, Sending, Registry, Grants

CONSTANTS Components, u1, s1, home, phone, x, y, n1, n2, short, r1, r2, r3, h1, h2

VARIABLE component

MCKindOf == (home :> "email") @@ (phone :> "sms")
MCOwnerOf == (home :> u1) @@ (phone :> u1)
MCEndOf == [n \in {n1, n2, short} |-> n]

\* No one is registered, or u1 is, alone or with a second contact.
NoContact == [c \in Contact |-> Nothing]
Unconfirmed(info) == [info |-> info, status |-> "unconfirmed"]
MCInitial == {NoContact, [NoContact EXCEPT ![home] = Unconfirmed(x)],
              (home :> Unconfirmed(x)) @@ (phone :> Unconfirmed(y))}

MCEdits == [active : {TRUE}, scopes : {{}, {s1}}]
MCOwner == {[active |-> TRUE, admin |-> TRUE, totp |-> FALSE],
            [active |-> TRUE, admin |-> FALSE, totp |-> TRUE],
            [active |-> FALSE, admin |-> TRUE, totp |-> FALSE]}

MCHostOf == (r1 :> h1) @@ (r2 :> h1) @@ (r3 :> h2)

ServicesInit ==
    /\ component \in Components
    /\ ConfirmInit /\ LoginInit /\ ApiKeyInit
    /\ UploadInit /\ SendingInit /\ RegistryInit /\ GrantsInit
    \* what is left alone has one initial state
    /\ component # "confirmation" => contact = NoContact
    /\ component # "login" => ~acct.muted
    /\ component # "apikey" => owner.admin
    /\ component # "sending" => called = 0

\* A turn of one component; the others keep their state.
ConfirmTurn ==
    /\ component = "confirmation" /\ ConfirmNext
    /\ UNCHANGED <<component, loginVars, apiKeyVars, uploadVars, sendingVars, registryVars, grantsVars>>
LoginTurn ==
    /\ component = "login" /\ LoginNext
    /\ UNCHANGED <<component, confirmVars, apiKeyVars, uploadVars, sendingVars, registryVars, grantsVars>>
ApiKeyTurn ==
    /\ component = "apikey" /\ ApiKeyNext
    /\ UNCHANGED <<component, confirmVars, loginVars, uploadVars, sendingVars, registryVars, grantsVars>>
UploadTurn ==
    /\ component = "upload" /\ UploadNext
    /\ UNCHANGED <<component, confirmVars, loginVars, apiKeyVars, sendingVars, registryVars, grantsVars>>
SendingTurn ==
    /\ component = "sending" /\ SendingNext
    /\ UNCHANGED <<component, confirmVars, loginVars, apiKeyVars, uploadVars, registryVars, grantsVars>>
RegistryTurn ==
    /\ component = "registry" /\ RegistryNext
    /\ UNCHANGED <<component, confirmVars, loginVars, apiKeyVars, uploadVars, sendingVars, grantsVars>>

GrantsTurn ==
    /\ component = "grants" /\ GrantsNext
    /\ UNCHANGED <<component, confirmVars, loginVars, apiKeyVars, uploadVars, sendingVars, registryVars>>

ServicesNext ==
    \/ ConfirmTurn \/ LoginTurn \/ ApiKeyTurn
    \/ UploadTurn \/ SendingTurn \/ RegistryTurn \/ GrantsTurn

servicesVars == <<component, confirmVars, loginVars, apiKeyVars,
                  uploadVars, sendingVars, registryVars, grantsVars>>
ServicesSpec == ServicesInit /\ [][ServicesNext]_servicesVars
ServicesSymmetry == Permutations(Server)
=============================================================================
