------------------------------ MODULE MCRalloc ------------------------------
EXTENDS Ralloc

\* Jobs of 2 or 4 queries, not all completed (a job whose queries all completed is flushed), 1 or 2 seconds elapsed.
MCProfiles == {p \in [total : {2, 4}, completed : 0..4, elapsed : 1..2] :
                  p.completed < p.total}
=============================================================================
