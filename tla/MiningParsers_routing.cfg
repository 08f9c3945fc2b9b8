SPECIFICATION Spec
INVARIANT RejectedNeverRouted
