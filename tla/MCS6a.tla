------------------------------- MODULE MCS6a -------------------------------
EXTENDS S6aSystem

\* One attach after another, each answered before the next.
Orderly == [sqn |-> 32, usim |-> 0, tries |-> 3, again |-> FALSE, fails |-> FALSE,
            drops |-> 1, calls |-> 1, lost |-> {}, count |-> -1]
\* The USIM is ahead of the database.
Ahead == [sqn |-> 32, usim |-> 200, tries |-> 2, again |-> FALSE, fails |-> FALSE,
          drops |-> 1, calls |-> 0, lost |-> {}, count |-> -1]
\* The UE asks again before it is answered.
Impatient == [sqn |-> 32, usim |-> 0, tries |-> 2, again |-> TRUE, fails |-> FALSE,
              drops |-> 1, calls |-> 1, lost |-> {}, count |-> -1]
\* And again.
Insistent == [Impatient EXCEPT !.tries = 3, !.drops = 0, !.calls = 0]
\* The database fails.
Broken == [sqn |-> 32, usim |-> 0, tries |-> 2, again |-> TRUE, fails |-> TRUE,
           drops |-> 0, calls |-> 0, lost |-> {}, count |-> -1]
\* Counts near the places where they carry.
Counting(c) == [sqn |-> 64, usim |-> 32, tries |-> 1, again |-> FALSE, fails |-> FALSE,
                drops |-> 2, calls |-> 2, lost |-> {1, 30, 31, 254, 255}, count |-> c]

MCSettings == {Orderly, Ahead, Impatient, Insistent, Broken}
                \cup {Counting(c) : c \in {0, 30, 223, 254, 65535}}
=============================================================================
