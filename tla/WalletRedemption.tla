-------------------------- MODULE WalletRedemption --------------------------
(***************************************************************************)
(* A volunteer redeems offers with the credits of his wallet while his     *)
(* shifts are being credited.  The wallet is one table, wallet_transactions*)
(* for credits (CreditAward) and debits alike; a redemption adds up what   *)
(* the table says and inserts a debit.  It holds an advisory lock on the   *)
(* user, which no award takes: awards lock "<user>:<event>".               *)
(*                                                                         *)
(* All the shifts of the instance are this volunteer's.                    *)
(***************************************************************************)
EXTENDS CreditAward, FiniteSets, Functions

CONSTANTS
    Offers, Cost,   \* the active offers and what they cost
    ShiftCredits,   \* what a shift pays
    Clients         \* database connections serving redemptions

ASSUME RowsFinite == IsFiniteSet(Offers) /\ IsFiniteSet(Shifts)
ASSUME CostPositive == Cost \in [Offers -> Nat \ {0}]
ASSUME ShiftCreditsPositive == ShiftCredits \in [Shifts -> Nat \ {0}]

VARIABLES
    redeemed,       \* redemptions (and their wallet debits) of each offer
    redeeming       \* the offer each connection has found affordable, as a set

walletVars == <<redeemed, redeeming>>

WalletInit ==
    /\ Init
    /\ redeemed = [o \in Offers |-> 0]
    /\ redeeming = [c \in Clients |-> {}]

Earned == SumFunction([s \in Shifts |-> Credits(s) * ShiftCredits[s]])
Spent == SumFunction([o \in Offers |-> redeemed[o] * Cost[o]])

\* Mutant: pg_advisory_xact_lock on the user is left out.
UserNeverLocked == TRUE

UserFree == \A c \in Clients : redeeming[c] = {}

\* Take the lock and read the balance; too little ends in a rollback.  Only
\* a redemption writes debits, so that nothing another transaction does
\* between the lock and the SUM lowers the balance.
BeginRedeem(c, o) ==
    /\ redeeming[c] = {}
    /\ UserFree
    /\ Earned - Spent >= Cost[o]
    /\ redeeming' = [redeeming EXCEPT ![c] = {o}]
    /\ UNCHANGED redeemed

\* INSERT the debit, INSERT the redemption, COMMIT.
CommitRedeem(c) ==
    /\ redeeming[c] # {}
    /\ redeemed' = [o \in Offers |-> IF o \in redeeming[c] THEN redeemed[o] + 1
                                                          ELSE redeemed[o]]
    /\ redeeming' = [redeeming EXCEPT ![c] = {}]

RollbackRedeem(c) ==
    /\ redeeming[c] # {}
    /\ redeeming' = [redeeming EXCEPT ![c] = {}]
    /\ UNCHANGED redeemed

WalletStep ==
    \E c \in Clients :
        \/ CommitRedeem(c) \/ RollbackRedeem(c)
        \/ \E o \in Offers : BeginRedeem(c, o)

WalletNext ==
    \/ Next /\ UNCHANGED walletVars
    \/ WalletStep /\ UNCHANGED vars

WalletSpec == WalletInit /\ [][WalletNext]_<<vars, walletVars>> /\ Fairness

\* Debits never exceed credits, although redemptions of one wallet overlap
\* and awards change it without the redemption's lock (redeemOffer).
NeverOverdrawn == Spent <= Earned
=============================================================================
