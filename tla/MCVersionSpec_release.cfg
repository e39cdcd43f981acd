\* Each version kind with each --release-number.
SPECIFICATION Spec
INVARIANT ReleaseIsOverride
