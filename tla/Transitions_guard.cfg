\* The guard of the circle effect, against the mapping.
CONSTANT Jobs <- OneCircle
SPECIFICATION Spec
INVARIANT StaysMapped
