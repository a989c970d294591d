SPECIFICATION Spec
PROPERTIES DerpDelivers FrpDelivers
CHECK_DEADLOCK FALSE
