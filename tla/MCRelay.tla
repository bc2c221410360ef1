------------------------------ MODULE MCRelay ------------------------------
EXTENDS Relay

\* Short lines with a rule and a list; a line of two messages, whose third character
\* the cut goes through, and a newline.
MCAnswers == {<<"lead", "trail", NL, "=", NL, "-">>,
              <<"x", "x", "lead", "trail", "!", "x", NL>>}

\* A job whose quiet hours pass midnight, one without that asks for "!", one that is silent.
MCDefinition ==
  [report |-> [announce |-> TRUE, onlyIf |-> FALSE, quiet |-> [from |-> 1, to |-> 0]],
   check  |-> [announce |-> TRUE, onlyIf |-> TRUE, quiet |-> [from |-> 1, to |-> 1]],
   tune   |-> [announce |-> FALSE, onlyIf |-> FALSE, quiet |-> [from |-> 0, to |-> 1]]]

Symmetry == Permutations(Workers)
=============================================================================
