------------------------------ MODULE MCFcdIo ------------------------------
EXTENDS FcdIo
\* With Half = 1 an int16_t is -1 or 0 and a uint16_t 0 or 1: one correction
\* that is in range, those of dc and the others of iq are not.
WordArgs ==
  [r \in {"dc", "iq"} |-> IF r = "dc" THEN {<<0, 1>>, <<-2, 0>>}
                          ELSE {<<-1, 1>>, <<1, 0>>, <<0, 2>>}]
=============================================================================
