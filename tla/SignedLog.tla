----------------------------- MODULE SignedLog -----------------------------
(* What the A2A bridge promises of its writes: wallets sign operations, and   *)
(* the log takes each signed operation at most once, in some order.  Nothing  *)
(* is said of nonces, transactions, vouchers or the process that may stop.    *)
EXTENDS Sequences, Naturals

CONSTANTS Signatures  \* records with an agent and a nonce, among others

VARIABLES granted,  \* the operations signed so far
          done      \* the signatures of the operations carried out, in order

vars == <<granted, done>>

Init == granted = {} /\ done = <<>>

\* One more operation is signed.
Sign == \E s \in (granted' \ granted) \cap Signatures :
            granted' = granted \cup {s} /\ UNCHANGED done

\* A nonce of an agent stands for one operation.
Spent(s) == \E i \in DOMAIN done : done[i].agent = s.agent /\ done[i].nonce = s.nonce

\* A signed operation whose nonce is not spent is carried out.
CarryOut == \E s \in granted :
            ~Spent(s) /\ done' = Append(done, s) /\ UNCHANGED granted

Next == Sign \/ CarryOut

Spec == Init /\ [][Next]_vars
=============================================================================
