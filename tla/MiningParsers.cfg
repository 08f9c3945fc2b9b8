SPECIFICATION Spec
INVARIANT DispatchFollowsTables
