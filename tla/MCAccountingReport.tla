----------------------------- MODULE MCAccountingReport -----------------------------
\* What the report of the accounting oracle is made of.  The parts share
\* no state: one run checks each of them, the one that "part" names, while the others rest in
\* one initial state.
EXTENDS Slashings, ClRebase, VaultFees, VaultValue, ExtraData, VaultReserve, LidoKeys, TLC

CONSTANTS l1, l2, o1, key1

VARIABLE part

\* Validator l2 comes later and is twice as large as l1; o1 is the rest of the network.
MCActivation == [v \in Validator |-> IF v = l2 THEN 4 ELSE 0]
MCIncrements == [v \in Validator |-> IF v = l2 THEN 2 ELSE IF v = l1 THEN 1 ELSE 9]
MCRebases == {-1, 3}

\* Four operators of two modules: three items, so that extra data takes three transactions.
MCOperators == {<<1, 1>>, <<1, 2>>, <<1, 4>>, <<2, 1>>}

\* Two keys of two modules; the second module comes a block later.
MCKeyOperator == [k \in LidoKey |-> IF k = key1 THEN <<1, 1>> ELSE <<2, 1>>]
MCBorn == (<<1, 1>> :> 0) @@ (<<1, 2>> :> 0) @@ (<<2, 1>> :> 1)

MCInit ==
  /\ part \in {"slashings", "rebase", "fees", "value", "extra data", "reserve", "keys"}
  /\ SlashingsInit /\ RebaseInit /\ FeesInit /\ ValueInit /\ ExtraInit /\ ReserveInit
  /\ KeysInit

MCNext ==
  \/ /\ part = "slashings" /\ SlashingsNext
     /\ UNCHANGED <<rebaseVars, feesVars, valueVars, dataVars, reserveVars, keysVars, part>>
  \/ /\ part = "rebase" /\ RebaseNext
     /\ UNCHANGED <<slashVars, feesVars, valueVars, dataVars, reserveVars, keysVars, part>>
  \/ /\ part = "fees" /\ FeesNext
     /\ UNCHANGED <<slashVars, rebaseVars, valueVars, dataVars, reserveVars, keysVars, part>>
  \/ /\ part = "value" /\ ValueNext
     /\ UNCHANGED <<slashVars, rebaseVars, feesVars, dataVars, reserveVars, keysVars, part>>
  \/ /\ part = "extra data" /\ ExtraNext
     /\ UNCHANGED <<slashVars, rebaseVars, feesVars, valueVars, reserveVars, keysVars, part>>
  \/ /\ part = "reserve" /\ ReserveNext
     /\ UNCHANGED <<slashVars, rebaseVars, feesVars, valueVars, dataVars, keysVars, part>>
  \/ /\ part = "keys" /\ KeysNext
     /\ UNCHANGED <<slashVars, rebaseVars, feesVars, valueVars, dataVars, reserveVars, part>>

MCSpec ==
  MCInit /\ [][MCNext]_<<slashVars, rebaseVars, feesVars, valueVars, dataVars, reserveVars,
                         keysVars, part>>
=============================================================================
