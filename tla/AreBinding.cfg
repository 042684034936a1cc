SPECIFICATION Spec
CONSTANT Projects <- MCProjects
INVARIANTS TypeOK InputsReachTheHandler RaisedErrorsAreMapped AnswersKeepTheirStatus
\* A project that was refused stops.
CHECK_DEADLOCK FALSE
