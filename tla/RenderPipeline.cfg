SPECIFICATION Spec
INVARIANTS PipelineTypeOK InputsAreThisFrames ShownIsSelected OutputIsAttached
PROPERTIES OfferedStaysOffered
CHECK_DEADLOCK FALSE
