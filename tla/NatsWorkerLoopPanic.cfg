CONSTANT Contexts = {c1, c2}
SPECIFICATION Spec
INVARIANT CleanupAfterHandlers
