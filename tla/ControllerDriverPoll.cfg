SPECIFICATION Spec
CONSTANT Addresses = {1}
INVARIANT PollsWhatIsMounted
