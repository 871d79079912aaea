------------------------- MODULE MCAttentionSchedule -------------------------
EXTENDS PortalHours, TLC

CONSTANTS d1, d2

\* A schedule of one day and one of both: on d2 not every schedule applies.
OneOrBoth == {{d1}, {d1, d2}}

\* One time only, hours, hours with a recess, hours across midnight.
PortalSays == {<<2>>, <<1, 2>>, <<1, 4, 2, 4>>, <<3, 1>>}

\* Two calls are interchangeable (used with invariants only).
CallerSymmetry == Permutations(Callers)
=============================================================================
