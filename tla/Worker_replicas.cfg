SPECIFICATION FairSpec
CONSTANTS
    Replica = {w1, w2}
    Node = {n1}
    Threshold = 2
    MaxRetired = 1
    MaxFaults = 3
PROPERTIES BeginsAsHolder StragglerStops MaintenanceGoesOn MarkedAfterThreshold
    StatusFollowsNode RetirementLasts
