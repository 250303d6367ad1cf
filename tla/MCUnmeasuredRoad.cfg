CONSTANTS
    None = None
    Missing = Missing
    RoadIds <- MCRoadIds
    Alias <- MCAlias
    Cases <- MCCases
SPECIFICATION Spec
INVARIANT UnmeasuredIsNotPreferred
