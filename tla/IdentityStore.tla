--------------------------- MODULE IdentityStore ---------------------------
(***************************************************************************)
(* Karma identities of the MiniApp: sign-in with a wallet (siwe.py), main  *)
(* and sub identities, the binding of Telegram users (store.py), and the   *)
(* sessions that act for them (telegram/session.py, with the routes of     *)
(* telegram_miniapp_auth.py).                                              *)
(*                                                                         *)
(* Identities are written to a file by every change; the indexes by wallet *)
(* and by Telegram user live in memory and are built again from the file.  *)
(***************************************************************************)
EXTENDS Integers, FiniteSets

CONSTANTS
    Wallet, TG, Nonce, Session,
    SeedIdentity,   \* ids that test_seed may seed, with a wallet of their own
    MaxIdentity,    \* bound: identities made by the store
    MaxSeed,        \* bound: codes handed out
    None

VARIABLES
    identity,       \* _BY_ID
    by_wallet,      \* _BY_WALLET
    by_tg,          \* _BY_TG
    challenge,      \* _CHALLENGES
    session,        \* the session store
    seeds, binds,   \* codes handed out for an identity, and codes that bound it
    logins         \* sign-ins that a nonce was good for

vars == <<identity, by_wallet, by_tg, challenge, session, seeds, binds, logins>>

Id == (1..MaxIdentity) \cup SeedIdentity

Known == {i \in Id : identity[i] # None}

Subs(p) == {i \in Known : identity[i].parent = p}

\* The wallet of a seeded identity is a new account.
WalletOf == Wallet \cup SeedIdentity

KarmaIdentity(w, parent, code) ==
    [wallet |-> w, parent |-> parent, tg |-> None, twofa_code |-> code, limit |-> "default"]

main(i) == IF identity[i].parent = None THEN i ELSE identity[i].parent

Fresh == CHOOSE i \in 1..MaxIdentity : i \notin Known /\ \A j \in 1..(i - 1) : j \in Known

-----------------------------------------------------------------------------
\* Signing in with a wallet

create_challenge(n, w) ==
    /\ challenge[n] = None /\ logins[n] = 0
    /\ challenge' = [challenge EXCEPT ![n] = [address |-> w, live |-> TRUE]]
    /\ UNCHANGED <<identity, by_wallet, by_tg, session, seeds, binds, logins>>

challenge_expires(n) ==
    /\ challenge[n] # None /\ challenge[n].live
    /\ challenge' = [challenge EXCEPT ![n].live = FALSE]
    /\ UNCHANGED <<identity, by_wallet, by_tg, session, seeds, binds, logins>>

pop_challenge(n) == [challenge EXCEPT ![n] = None]

get_or_create_by_wallet(w) ==
    \/ by_wallet[w] # None /\ UNCHANGED <<identity, by_wallet>>
    \/ /\ by_wallet[w] = None
       /\ 1..MaxIdentity \ Known # {}
       /\ identity' = [identity EXCEPT ![Fresh] = KarmaIdentity(w, None, "")]
       /\ by_wallet' = [by_wallet EXCEPT ![w] = Fresh]

\* siwe_verify: the route is a coroutine that does not wait before the challenge
\* is popped, so a nonce is checked and used up in one step.
siwe_verify(n) ==
    /\ challenge[n] # None
    /\ challenge[n].live
    /\ challenge' = pop_challenge(n)
    /\ get_or_create_by_wallet(challenge[n].address)
    /\ logins' = [logins EXCEPT ![n] = @ + 1]
    /\ UNCHANGED <<by_tg, session, seeds, binds>>

siwe_expired(n) ==
    /\ challenge[n] # None
    /\ ~challenge[n].live
    /\ challenge' = pop_challenge(n)
    /\ UNCHANGED <<identity, by_wallet, by_tg, session, seeds, binds, logins>>

-----------------------------------------------------------------------------
\* Sessions

telegram_session(s, t) ==
    /\ session[s] = None
    /\ session' = [session EXCEPT ![s] = [tg |-> t, identity |-> by_tg[t]]]
    /\ UNCHANGED <<identity, by_wallet, by_tg, challenge, seeds, binds, logins>>

session_expires(s) ==
    /\ session[s] # None
    /\ session' = [session EXCEPT ![s] = None]
    /\ UNCHANGED <<identity, by_wallet, by_tg, challenge, seeds, binds, logins>>

-----------------------------------------------------------------------------
\* Bindings

may_bind(i, t) == by_tg[t] \in {None, i}

\* telegram_bind with a session of the same Telegram user.
bind_telegram(i, s) ==
    LET t == session[s].tg
    IN  /\ session[s] # None
        /\ may_bind(i, t)
        /\ identity' = [identity EXCEPT ![i].tg = t]
        /\ by_tg' = [by_tg EXCEPT ![t] = i]
        /\ session' = [session EXCEPT ![s].identity = i]
        /\ UNCHANGED <<by_wallet, challenge, seeds, binds, logins>>

burn(i) == ""

\* The code of an identity moves a Telegram user to it, away from the one before.
bind_by_2fa(t, i) ==
    LET prev == by_tg[t]
    IN  /\ identity[i].twofa_code # ""
        /\ identity' = [j \in Id |->
               IF j = i THEN [identity[i] EXCEPT !.tg = t, !.twofa_code = burn(i)]
               ELSE IF j = prev THEN [identity[j] EXCEPT !.tg = None] ELSE identity[j]]
        /\ by_tg' = [by_tg EXCEPT ![t] = i]
        /\ binds' = [binds EXCEPT ![i] = @ + 1]
        /\ UNCHANGED <<by_wallet, challenge, session, seeds, logins>>

seed_identity(i) ==
    /\ seeds[i] < MaxSeed
    /\ seeds' = [seeds EXCEPT ![i] = @ + 1]
    /\ identity' = [identity EXCEPT ![i] =
           IF @ = None THEN KarmaIdentity(i, None, "code") ELSE [@ EXCEPT !.twofa_code = "code"]]
    /\ by_wallet' = IF identity[i] = None THEN [by_wallet EXCEPT ![i] = i] ELSE by_wallet
    /\ UNCHANGED <<by_tg, challenge, session, binds, logins>>

-----------------------------------------------------------------------------
\* What a session does for its identity

may_have_sub(p) == identity[p].parent = None /\ Cardinality(Subs(p)) < 2

create_sub_identity(s, w) ==
    LET p == session[s].identity
    IN  /\ session[s] # None /\ p # None
        /\ may_have_sub(p)
        /\ by_wallet[w] = None
        /\ 1..MaxIdentity \ Known # {}
        /\ identity' = [identity EXCEPT ![Fresh] = KarmaIdentity(w, p, "")]
        /\ by_wallet' = [by_wallet EXCEPT ![w] = Fresh]
        /\ UNCHANGED <<by_tg, challenge, session, seeds, binds, logins>>

\* update_policy checks that the session names the identity.
update_policy(s) ==
    /\ session[s] # None
    /\ session[s].identity # None
    /\ identity' = [identity EXCEPT ![session[s].identity].limit = "own"]
    /\ UNCHANGED <<by_wallet, by_tg, challenge, session, seeds, binds, logins>>

-----------------------------------------------------------------------------
\* The indexes as _load builds them. Sessions are kept by Redis; challenges are not.
index_by_tg == [t \in TG |-> IF \E i \in Known : identity[i].tg = t
                              THEN CHOOSE i \in Known : identity[i].tg = t ELSE None]

index_by_wallet == [w \in WalletOf |-> IF \E i \in Known : identity[i].wallet = w
                                        THEN CHOOSE i \in Known : identity[i].wallet = w ELSE None]

restart ==
    /\ by_tg' = index_by_tg
    /\ by_wallet' = index_by_wallet
    /\ challenge' = [n \in Nonce |-> None]
    /\ UNCHANGED <<identity, session, seeds, binds, logins>>

Init ==
    /\ identity = [i \in Id |-> None]
    /\ by_wallet = [w \in WalletOf |-> None]
    /\ by_tg = [t \in TG |-> None]
    /\ challenge = [n \in Nonce |-> None]
    /\ session = [s \in Session |-> None]
    /\ seeds = [i \in SeedIdentity |-> 0]
    /\ binds = [i \in Id |-> 0]
    /\ logins = [n \in Nonce |-> 0]

Next ==
    \/ \E n \in Nonce, w \in Wallet : create_challenge(n, w)
    \/ \E n \in Nonce : challenge_expires(n) \/ siwe_verify(n) \/ siwe_expired(n)
    \/ \E s \in Session, t \in TG : telegram_session(s, t)
    \/ \E s \in Session : session_expires(s) \/ update_policy(s)
    \/ \E s \in Session, w \in Wallet : create_sub_identity(s, w)
    \/ \E i \in Known, s \in Session : bind_telegram(i, s)
    \/ \E i \in Known, t \in TG : bind_by_2fa(t, i)
    \/ \E i \in SeedIdentity : seed_identity(i)
    \/ restart

Spec == Init /\ [][Next]_vars

-----------------------------------------------------------------------------
TypeOK ==
    /\ identity \in [Id -> {None} \cup [wallet : WalletOf, parent : Id \cup {None},
                                        tg : TG \cup {None}, twofa_code : {"", "code"},
                                        limit : {"default", "own"}]]
    /\ by_wallet \in [WalletOf -> Id \cup {None}]
    /\ by_tg \in [TG -> Id \cup {None}]
    /\ session \in [Session -> {None} \cup [tg : TG, identity : Id \cup {None}]]

\* An identity that is bound to a Telegram user is the one the index finds for that
\* user, so no user is bound to two identities, after any binding and any restart.
BoundIsFound == \A i \in Known : identity[i].tg # None => by_tg[identity[i].tg] = i

\* Wallets and identities correspond one to one, whichever of sign-in, sub identity,
\* seed or restart came first.
WalletIsIdentity ==
    /\ \A i \in Known : by_wallet[identity[i].wallet] = i
    /\ \A w \in WalletOf : by_wallet[w] # None => identity[by_wallet[w]].wallet = w

\* Every sub identity answers to a main one in one step, and no main identity has
\* more than two: what a bot reads through a sub is a main identity's policy.
OneLevel ==
    \A i \in Known : /\ identity[main(i)].parent = None
                     /\ Cardinality(Subs(i)) <= 2

\* A code that was handed out binds once.
CodeBindsOnce == \A i \in Known : binds[i] <= IF i \in SeedIdentity THEN seeds[i] ELSE 0

\* A signed challenge signs in once.
NonceOnce == \A n \in Nonce : logins[n] <= 1
=============================================================================
